---- MODULE Spec2Model ----
(***************************************************************************)
(* Hardware sequencing engine of the repository:                           *)
(*   - the Sidecar sequencer server (drv/sidecar-seq-server/src/main.rs):  *)
(*     the PowerState machine, VID sampling, regulator programming, clock  *)
(*     configuration load and the timer notification;                      *)
(*   - the Gimlet sequencer bring-up (drv/gimlet-seq-server/src/main.rs):  *)
(*     rail enables, power-good polling and the bitstream load loop;       *)
(*   - the stage0 bootloader (stage0/src/main.rs): the checks of image A,  *)
(*     the security attribution unit and the branch to the image;          *)
(*   - the net task's VSC8552 bring-up (task/net/src/bsp/sidecar_1.rs):    *)
(*     the power enable, reset and COMA_MODE pins around the PHY init.     *)
(* Each program is one specification over its own variables; the other     *)
(* programs' variables stay as they are.                                   *)
(***************************************************************************)
EXTENDS Integers, Sequences, FiniteSets, TLC

(***************************************************************************)
(* Bounds of the model.                                                    *)
(***************************************************************************)
\* timer notifications handled since the server started
MaxTicks == 2
\* packets of the clock generator payload
NumPackets == 5
\* failed bitstream load attempts that are told apart
MaxFailed == 2
\* time a sleep_for may last beyond the ticks asked for
MaxLate == 1

(***************************************************************************)
(* Program constants of the Sidecar sequencer server.                      *)
(***************************************************************************)
TIMER_INTERVAL == 1000
\* while i < 5 && seq_state < 9 { hl::sleep_for(10); ... }
SeqPollRetries == 5
SeqStateThreshold == 9
SeqPollSleep == 10

\* values the controller's TOFINO_SEQ_STATE register is read as
SeqReadValues == {0, 8, 9}
\* values the controller's TOFINO_VID register is read as
VidReadValues == {7, 8, 15, 16}
\* sys_get_timer().now when main starts
StartNows == {0, 3}
\* every value of a u8 register
AllBytes == 0..255

PowerState == {"A2", "A0"}

\* a match whose arms are in the opposite order
VidDecodeBug(b) ==
  CASE b = 8 -> "V0P922"
    [] b = 9 -> "V0P893"
    [] b = 10 -> "V0P867"
    [] b = 11 -> "V0P847"
    [] b = 12 -> "V0P831"
    [] b = 13 -> "V0P815"
    [] b = 14 -> "V0P790"
    [] b = 15 -> "V0P759"
    [] OTHER -> "Invalid"

\* get_tofino_vid: the match on the register byte
VidDecode(b) ==
  CASE b = 15 -> "V0P922"
    [] b = 14 -> "V0P893"
    [] b = 13 -> "V0P867"
    [] b = 12 -> "V0P847"
    [] b = 11 -> "V0P831"
    [] b = 10 -> "V0P815"
    [] b = 9 -> "V0P790"
    [] b = 8 -> "V0P759"
    [] OTHER -> "Invalid"

\* apply_vid: the set-point of each code, in millivolts
VidMillivolts(v) ==
  CASE v = "V0P922" -> 922
    [] v = "V0P893" -> 893
    [] v = "V0P867" -> 867
    [] v = "V0P847" -> 847
    [] v = "V0P831" -> 831
    [] v = "V0P815" -> 815
    [] v = "V0P790" -> 790
    [] v = "V0P759" -> 759

VARIABLES
  \* ---- Sidecar sequencer server
  pc,        \* position of the server task
  state,     \* ServerImpl.state
  vid,       \* ServerImpl.vid
  deadline,  \* ServerImpl.deadline
  i,         \* set_state: the poll counter
  seq_state, \* set_state: the last value read from TOFINO_SEQ_STATE
  packet,    \* load_clock_config: the packet counter
  tofinoEn,  \* hardware: the controller's TOFINO_EN register
  vout,      \* hardware: the set-point last programmed into the regulator
  led,       \* hardware: the level of the status LED pin
  timer,     \* kernel: the deadline the timer is armed at
  call,      \* the call in progress, or the last one: what was asked and returned
  prev,      \* the call completed before it
  ops,       \* hardware steps and state writes of the call in progress (or last)
  ticks,     \* timer notifications handled since the server started
  deadline0, \* the deadline main started with
  committed, \* the state of the last set_state that returned Ok since start
  \* ---- Gimlet sequencer bring-up
  gpc,       \* position of main
  board,     \* the target_board the image was built for
  odr,       \* hardware: the output pins whose data register bit is set
  outPins,   \* hardware: the pins configured as outputs
  idr,       \* hardware: the power-good inputs that read asserted
  lastWrite, \* the last set_reset call: port, set-mask, clear-mask
  wrote,     \* the rails whose enable this run of main has written
  sawPg,     \* the rails whose power-good this run of main has read asserted
  sinceIo,   \* time slept since the last GPIO access
  warm,      \* the task has been restarted with a rail enable driven high
  spiHeld,   \* the SPI server holds the programming device locked for the task
  bsLen,     \* BITSTREAM.len()
  sent,      \* the chunks continue_bitstream_load accepted in this attempt
  loadLog,   \* the loader calls of this attempt: <<call, offset, length, ok>>
  failed,    \* the attempts of this run of main that failed (counted to MaxFailed)
  \* ---- stage0 bootloader
  bpc,          \* position of main
  image_length, \* flash: ImageHeader.image_length of image A
  programmed,   \* flash: the bytes from the image start on that are programmed
  sig_ok,       \* whether validate_image accepts the image in flash
  attest_ok,    \* whether attest succeeds on this part
  entry_pt,     \* main: the entry point, filled in by validate_image
  sau_ctrl,     \* hardware: the SAU control register
  vtor_ns,      \* hardware: the non-secure vector table offset register
  ns_pc,        \* where the non-secure world executes, NotRunning before bxns
  trail,        \* the checks main has passed, in the order it passed them
  \* ---- net task, VSC8552 bring-up
  npc,       \* position of configure_phy
  phyOdr,    \* hardware: the PHY pins whose output data register bit is set
  phyOut,    \* hardware: the PHY pins configured as outputs
  lastPin,   \* the last set or reset of a PHY pin, as <<pin, level>>
  slept,     \* time slept since the last set or reset of a PHY pin
  phyReady   \* whether init_vsc8552_phy has returned Ok in this run

svars == <<pc, state, vid, deadline, i, seq_state, packet, tofinoEn, vout, led,
           timer, call, prev, ops, ticks, deadline0, committed>>

gvars == <<gpc, board, odr, outPins, idr, lastWrite, wrote, sawPg, sinceIo,
           warm, spiHeld, bsLen, sent, loadLog, failed>>

bvars == <<bpc, image_length, programmed, sig_ok, attest_ok, entry_pt, sau_ctrl,
           vtor_ns, ns_pc, trail>>

nvars == <<npc, phyOdr, phyOut, lastPin, slept, phyReady>>

vars == <<svars, gvars, bvars, nvars>>

\* the non-secure world has not been entered
NotRunning == -1

\* a u32 byte count as its whole pages of 0x200 bytes and the bytes beyond them
Bytes(p, r) == [pages |-> p, rest |-> r]
NoImage == Bytes(0, 0)

NoCall == [op |-> "none", req |-> "none", pre |-> "none", ret |-> "none", val |-> "none"]
NoPrev == [op |-> "none", req |-> "none", ret |-> "none", ens |-> 0]

\* set_tofino_enabled(true) calls in a log
NumEnables(log) == Cardinality({k \in 1..Len(log) : log[k] = <<"en", 1>>})

(***************************************************************************)
(* Board data of the Gimlet sequencer (the cfg_if! at the end of main.rs). *)
(* A mask is the set of its bit numbers; a pin is <<port, bit>>.           *)
(***************************************************************************)
Boards == {"gimletlet-2", "gimlet-1", "standalone"}

ENABLES_PORT == IF board = "gimletlet-2" THEN "E" ELSE "A"
ENABLE_V1P2_MASK == IF board = "gimletlet-2" THEN {2} ELSE {15}
ENABLE_V3P3_MASK == IF board = "gimletlet-2" THEN {3} ELSE {4}
PGS_PORT == IF board = "gimletlet-2" THEN "B" ELSE "C"
PG_V1P2_MASK == IF board = "gimletlet-2" THEN {14} ELSE {7}
PG_V3P3_MASK == IF board = "gimletlet-2" THEN {15} ELSE {6}
\* ICE40_CONFIG.creset and .cdone
CresetPort == IF board = "gimletlet-2" THEN "B" ELSE "D"
CresetMask == IF board = "gimletlet-2" THEN {10} ELSE {5}
CdonePort == IF board = "gimletlet-2" THEN "E" ELSE "B"
CdoneMask == IF board = "gimletlet-2" THEN {15} ELSE {4}
\* GLOBAL_RESET: None is <<>>, Some((port, mask)) is <<port, mask>>
GLOBAL_RESET == IF board = "gimletlet-2" THEN <<>> ELSE <<"A", {6}>>
\* FPGA_HACK_PINS: None is <<>>, Some(&[..]) the list of <<port, mask, is_high>>
FPGA_HACK_PINS == IF board = "gimlet-1" THEN << <<"I", {8}, FALSE>> >> ELSE <<>>

CHUNK_SIZE == 512
\* lengths of the bitstream image
BitstreamLens == {300, 512, 1025}

Pins(port, mask) == {<<port, b>> : b \in mask}
EnablePins == Pins(ENABLES_PORT, ENABLE_V1P2_MASK \cup ENABLE_V3P3_MASK)
NoWrite == [port |-> "none", set |-> {}, clear |-> {}]

\* the input data register of PGS_PORT, as gpio.read_input returns it
ReadInput ==
  (IF "V1P2" \in idr THEN PG_V1P2_MASK ELSE {})
    \cup (IF "V3P3" \in idr THEN PG_V3P3_MASK ELSE {})

\* the positions of main, in program order
GimletOrder ==
  <<"start", "cfg_enables", "cfg_ice40", "creset_low",
    "en_v1p2", "settle_v1p2", "poll_v1p2", "sleep_v1p2",
    "en_v3p3", "settle_v3p3", "poll_v3p3", "sleep_v3p3",
    "wait_fpga", "hack_pins", "global_reset", "assert_reset",
    "spi_device", "begin", "continue", "finish", "release",
    "deassert_reset", "steady">>

Rank(p) == CHOOSE k \in 1..Len(GimletOrder) : GimletOrder[k] = p

\* main of the Sidecar server: the ServerImpl as constructed, on cold hardware
ServerInit(nows) ==
  /\ pc = "idle"
  /\ state = "A2"
  /\ vid = "Invalid"
  /\ deadline0 \in nows
  /\ deadline = deadline0
  /\ timer = deadline0
  /\ i = 0
  /\ seq_state = 0
  /\ packet = 0
  /\ tofinoEn = 0
  /\ vout = 0
  /\ led = 0
  /\ call = NoCall
  /\ prev = NoPrev
  /\ ops = <<>>
  /\ ticks = 0
  /\ committed = "A2"

\* the Gimlet sequencer at the top of main after a processor reset: every pin
\* is in its reset state, which is an input with its data register bit clear
GimletInit(boards, inputs, lens) ==
  /\ gpc = "start"
  /\ board \in boards
  /\ odr = {}
  /\ outPins = {}
  /\ idr \in inputs
  /\ lastWrite = NoWrite
  /\ wrote = {}
  /\ sawPg = {}
  /\ sinceIo = 0
  /\ warm = FALSE
  /\ spiHeld = FALSE
  /\ bsLen \in lens
  /\ sent = <<>>
  /\ loadLog = <<>>
  /\ failed = 0

\* the bootloader before the part is released from reset, with image A as it
\* is in flash and the outcomes the two checks have on it
Stage0Init(lengths, extents, outcomes) ==
  /\ bpc = "validate"
  /\ image_length \in lengths
  /\ programmed \in extents
  /\ sig_ok \in outcomes
  /\ attest_ok \in outcomes
  /\ entry_pt = 0
  /\ sau_ctrl = 0
  /\ vtor_ns = "reset"
  /\ ns_pc = NotRunning
  /\ trail = <<>>

\* no PHY pin was set or reset yet
NoPin == <<"none", 0>>

\* the net task at the top of configure_phy after a processor reset: the
\* PHY pins are inputs with their data register bits clear
VscInit ==
  /\ npc = "nrst_low"
  /\ phyOdr = {}
  /\ phyOut = {}
  /\ lastPin = NoPin
  /\ slept = 0
  /\ phyReady = FALSE

\* the Sidecar server starts; the other programs are not run
Init ==
  /\ ServerInit(StartNows)
  /\ GimletInit({"gimlet-1"}, {{}}, {CHUNK_SIZE})
  /\ Stage0Init({NoImage}, {0}, {FALSE})
  /\ VscInit

\* the Gimlet sequencer starts; the other programs are not run
InitGimlet ==
  /\ ServerInit({0})
  /\ GimletInit(Boards, SUBSET {"V1P2", "V3P3"}, BitstreamLens)
  /\ Stage0Init({NoImage}, {0}, {FALSE})
  /\ VscInit

(***************************************************************************)
(* The Sidecar sequencer server.                                           *)
(***************************************************************************)

\* a failed bus access that is answered to the caller as an error
PanicBug ==
  /\ pc' = "idle"
  /\ call' = [call EXCEPT !.ret = "HardwareAccessError"]
  /\ UNCHANGED <<nvars, bvars, gvars, state, vid, deadline, i, seq_state, packet, tofinoEn, vout, led,
                 timer, prev, ops, ticks, deadline0, committed>>

\* an .unwrap() on a failed bus access: the task panics where it stands
Panic ==
  /\ pc' = "halted"
  /\ UNCHANGED <<nvars, bvars, gvars, state, vid, deadline, i, seq_state, packet, tofinoEn, vout, led,
                 timer, call, prev, ops, ticks, deadline0, committed>>


\* a dispatcher that takes a request while a handler is still running
BeginCallBug(op, req) ==
  /\ pc # "halted"
  /\ prev' = [op |-> call.op, req |-> call.req, ret |-> call.ret,
              ens |-> NumEnables(ops)]
  /\ call' = [op |-> op, req |-> req, pre |-> state, ret |-> "pending", val |-> "none"]
  /\ ops' = <<>>

\* dispatch_n receives a request: the call before it becomes the previous one
BeginCall(op, req) ==
  /\ pc = "idle"
  /\ prev' = [op |-> call.op, req |-> call.req, ret |-> call.ret,
              ens |-> NumEnables(ops)]
  /\ call' = [op |-> op, req |-> req, pre |-> state, ret |-> "pending", val |-> "none"]
  /\ ops' = <<>>

\* a handler whose errors end the task instead of being answered
ReturnBug(r) ==
  /\ pc' = (IF r = "Ok" THEN "idle" ELSE "halted")
  /\ call' = [call EXCEPT !.ret = r]
  /\ i' = 0
  /\ seq_state' = 0
  /\ packet' = 0

\* the handler returns r to the caller and the task is back in dispatch_n; the
\* handler's locals (i, seq_state, packet) are gone with its frame
Return(r) ==
  /\ pc' = "idle"
  /\ call' = [call EXCEPT !.ret = r]
  /\ i' = 0
  /\ seq_state' = 0
  /\ packet' = 0

\* get_state
GetState ==
  /\ pc = "idle"
  /\ prev' = [op |-> call.op, req |-> call.req, ret |-> call.ret,
              ens |-> NumEnables(ops)]
  /\ call' = [op |-> "get_state", req |-> "none", pre |-> state, ret |-> "Ok",
              val |-> state]
  /\ ops' = <<>>
  /\ pc' = "idle"
  /\ UNCHANGED <<nvars, bvars, gvars, state, vid, deadline, i, seq_state, packet, tofinoEn, vout, led,
                 timer, ticks, deadline0, committed>>

\* a match whose first arm takes every request for A0
TransitionBug(cur, req) ==
  CASE req = "A0" -> "a2a0"
    [] cur = "A0" /\ req = "A2" -> "a0a2"
    [] OTHER -> "illegal"

\* set_state: match (self.state, state)
Transition(cur, req) ==
  CASE cur = "A2" /\ req = "A0" -> "a2a0"
    [] cur = "A0" /\ req = "A2" -> "a0a2"
    [] OTHER -> "illegal"

\* set_state is received and the match arm is chosen
SetState ==
  \E req \in PowerState :
    /\ pc = "idle"
    /\ prev' = [op |-> call.op, req |-> call.req, ret |-> call.ret,
                ens |-> NumEnables(ops)]
    /\ ops' = <<>>
    /\ \/ /\ Transition(state, req) = "a2a0"
          /\ pc' = "a2a0_enable"
          /\ call' = [op |-> "set_state", req |-> req, pre |-> state,
                      ret |-> "pending", val |-> "none"]
       \/ /\ Transition(state, req) = "a0a2"
          /\ pc' = "a0a2_disable"
          /\ call' = [op |-> "set_state", req |-> req, pre |-> state,
                      ret |-> "pending", val |-> "none"]
       \/ /\ Transition(state, req) = "illegal"
          /\ pc' = "idle"
          /\ call' = [op |-> "set_state", req |-> req, pre |-> state,
                      ret |-> "IllegalTransition", val |-> "none"]
    /\ UNCHANGED <<nvars, bvars, gvars, state, vid, deadline, i, seq_state, packet, tofinoEn, vout, led,
                   timer, ticks, deadline0, committed>>

\* set_tofino_enabled(enabled), from the position at, going to the position to
SetTofinoEnabled(at, enabled, to) ==
  /\ pc = at
  /\ \/ /\ tofinoEn' = (IF enabled THEN 1 ELSE 0)
        /\ ops' = Append(ops, <<"en", IF enabled THEN 1 ELSE 0>>)
        /\ pc' = to
        /\ UNCHANGED <<nvars, bvars, gvars, state, vid, deadline, i, seq_state, packet, vout, led,
                       timer, call, prev, ticks, deadline0, committed>>
     \/ Panic

\* A2 -> A0: self.set_tofino_enabled(true)
EnableTofino == SetTofinoEnabled("a2a0_enable", TRUE, "a2a0_first_read")

\* A2 -> A0: let mut i = 0; let mut seq_state = self.get_tofino_seq_state(),
\* the register reading one of values
FirstSeqReadOf(values) ==
  /\ pc = "a2a0_first_read"
  /\ \/ \E v \in values :
          /\ i' = 0
          /\ seq_state' = v
          /\ ops' = Append(ops, <<"seq", v>>)
          /\ pc' = "a2a0_loop"
          /\ UNCHANGED <<nvars, bvars, gvars, state, vid, deadline, packet, tofinoEn, vout, led,
                         timer, call, prev, ticks, deadline0, committed>>
     \/ Panic

FirstSeqRead == FirstSeqReadOf(SeqReadValues)

\* the first read finds the sequencer at phase 9
FirstSeqReadReady == FirstSeqReadOf({SeqStateThreshold})

\* a loop condition that goes round once more
PollAgainBug(n, s) == n <= SeqPollRetries /\ s < SeqStateThreshold

\* the loop condition: while i < 5 && seq_state < 9
PollAgain(n, s) == n < SeqPollRetries /\ s < SeqStateThreshold

\* a loop body that does not count its turns
PollSleepBug ==
  /\ pc = "a2a0_loop"
  /\ PollAgain(i, seq_state)
  /\ ops' = Append(ops, <<"sleep", SeqPollSleep>>)
  /\ pc' = "a2a0_reread"
  /\ UNCHANGED <<nvars, bvars, gvars, state, vid, deadline, i, seq_state, packet, tofinoEn, vout,
                 led, timer, call, prev, ticks, deadline0, committed>>

\* loop body, first half: hl::sleep_for(10); i += 1
PollSleep ==
  /\ pc = "a2a0_loop"
  /\ PollAgain(i, seq_state)
  /\ i' = i + 1
  /\ ops' = Append(ops, <<"sleep", SeqPollSleep>>)
  /\ pc' = "a2a0_reread"
  /\ UNCHANGED <<nvars, bvars, gvars, state, vid, deadline, seq_state, packet, tofinoEn, vout, led,
                 timer, call, prev, ticks, deadline0, committed>>

\* loop body, second half: seq_state = self.get_tofino_seq_state()
PollRead ==
  /\ pc = "a2a0_reread"
  /\ \/ \E v \in SeqReadValues :
          /\ seq_state' = v
          /\ ops' = Append(ops, <<"seq", v>>)
          /\ pc' = "a2a0_loop"
          /\ UNCHANGED <<nvars, bvars, gvars, state, vid, deadline, i, packet, tofinoEn, vout, led,
                         timer, call, prev, ticks, deadline0, committed>>
     \/ Panic

\* a timeout test that lets phase 8 pass
TimedOutBug(s) == s < SeqStateThreshold - 1

\* after the loop: if seq_state < 9
TimedOut(s) == s < SeqStateThreshold

\* the loop is left: if seq_state < 9 { Err(SequencerTimeout) } else { ... }
PollDone ==
  /\ pc = "a2a0_loop"
  /\ ~PollAgain(i, seq_state)
  /\ \/ /\ TimedOut(seq_state)
        /\ Return("SequencerTimeout")
     \/ /\ ~TimedOut(seq_state)
        /\ pc' = "a2a0_vid"
        /\ UNCHANGED <<nvars, bvars, gvars, call, i, seq_state, packet>>
  /\ UNCHANGED <<nvars, bvars, gvars, state, vid, deadline, tofinoEn, vout, led,
                 timer, prev, ops, ticks, deadline0, committed>>

\* a get_tofino_vid that keeps a valid code it already holds
GetTofinoVidOfBug(bytes) ==
  /\ pc = "a2a0_vid"
  /\ \/ /\ vid # "Invalid"
        /\ pc' = "a2a0_check"
        /\ UNCHANGED <<nvars, bvars, gvars, state, vid, deadline, i, seq_state, packet, tofinoEn,
                       vout, led, timer, call, prev, ops, ticks, deadline0,
                       committed>>
     \/ \E b \in bytes :
          /\ vid = "Invalid"
          /\ vid' = VidDecode(b)
          /\ ops' = Append(ops, <<"vid", b>>)
          /\ pc' = "a2a0_check"
          /\ UNCHANGED <<nvars, bvars, gvars, state, deadline, i, seq_state, packet, tofinoEn, vout,
                         led, timer, call, prev, ticks, deadline0, committed>>
     \/ Panic

\* self.get_tofino_vid(), the register reading one of bytes
GetTofinoVidOf(bytes) ==
  /\ pc = "a2a0_vid"
  /\ \/ \E b \in bytes :
          /\ vid' = VidDecode(b)
          /\ ops' = Append(ops, <<"vid", b>>)
          /\ pc' = "a2a0_check"
          /\ UNCHANGED <<nvars, bvars, gvars, state, deadline, i, seq_state, packet, tofinoEn, vout, led,
                         timer, call, prev, ticks, deadline0, committed>>
     \/ Panic

GetTofinoVid == GetTofinoVidOf(VidReadValues)

\* the VID register reads any byte
GetTofinoVidAnyByte == GetTofinoVidOf(AllBytes)

\* an else arm that commits without apply_vid
CheckVidBug ==
  /\ pc = "a2a0_check"
  /\ pc' = (IF vid = "Invalid" THEN "a2a0_eject" ELSE "a2a0_commit")
  /\ UNCHANGED <<nvars, bvars, gvars, state, vid, deadline, i, seq_state, packet, tofinoEn, vout, led,
                 timer, call, prev, ops, ticks, deadline0, committed>>

\* a transition that applies the VID without testing it
CheckVidNoTest ==
  /\ pc = "a2a0_check"
  /\ pc' = "a2a0_apply"
  /\ UNCHANGED <<nvars, bvars, gvars, state, vid, deadline, i, seq_state, packet, tofinoEn, vout, led,
                 timer, call, prev, ops, ticks, deadline0, committed>>

\* if self.vid == Tofino2Vid::Invalid { ... } else { ... }
CheckVid ==
  /\ pc = "a2a0_check"
  /\ pc' = (IF vid = "Invalid" THEN "a2a0_eject" ELSE "a2a0_apply")
  /\ UNCHANGED <<nvars, bvars, gvars, state, vid, deadline, i, seq_state, packet, tofinoEn, vout, led,
                 timer, call, prev, ops, ticks, deadline0, committed>>

\* an Invalid arm that leaves the device enabled
EjectTofinoBug ==
  /\ pc = "a2a0_eject"
  /\ pc' = "a2a0_invalid"
  /\ UNCHANGED <<nvars, bvars, gvars, state, vid, deadline, i, seq_state, packet, tofinoEn, vout, led,
                 timer, call, prev, ops, ticks, deadline0, committed>>

\* Eject, eject!: self.set_tofino_enabled(false)
EjectTofino == SetTofinoEnabled("a2a0_eject", FALSE, "a2a0_invalid")

\* an Invalid arm that sets the state before it fails
ReturnInvalidVidBug ==
  /\ pc = "a2a0_invalid"
  /\ state' = "A0"
  /\ Return("InvalidVid")
  /\ UNCHANGED <<nvars, bvars, gvars, vid, deadline, tofinoEn, vout, led,
                 timer, prev, ops, ticks, deadline0, committed>>

\* Err(RequestError::Runtime(SeqError::InvalidVid))
ReturnInvalidVid ==
  /\ pc = "a2a0_invalid"
  /\ Return("InvalidVid")
  /\ UNCHANGED <<nvars, bvars, gvars, state, vid, deadline, tofinoEn, vout, led,
                 timer, prev, ops, ticks, deadline0, committed>>

\* an apply_vid that leaves the regulator as it is
ApplyVidBug ==
  /\ pc = "a2a0_apply"
  /\ \/ /\ vid # "Invalid"
        /\ pc' = "a2a0_commit"
        /\ UNCHANGED <<nvars, bvars, gvars, state, vid, deadline, i, seq_state, packet, tofinoEn, led,
                       vout, ops, timer, call, prev, ticks, deadline0, committed>>
     \/ Panic

\* self.apply_vid(): the regulator write, or the trap of the Invalid arm
ApplyVid ==
  /\ pc = "a2a0_apply"
  /\ \/ /\ vid # "Invalid"
        /\ vout' = VidMillivolts(vid)
        /\ ops' = Append(ops, <<"vout", VidMillivolts(vid)>>)
        /\ pc' = "a2a0_commit"
        /\ UNCHANGED <<nvars, bvars, gvars, state, vid, deadline, i, seq_state, packet, tofinoEn, led,
                       timer, call, prev, ticks, deadline0, committed>>
     \/ Panic

\* self.state = s; Ok(())
Commit(at, s) ==
  /\ pc = at
  /\ state' = s
  /\ committed' = call.req
  /\ ops' = Append(ops, <<"state", s>>)
  /\ Return("Ok")
  /\ UNCHANGED <<nvars, bvars, gvars, vid, deadline, tofinoEn, vout, led,
                 timer, prev, ticks, deadline0>>

\* A2 -> A0: self.state = PowerState::A0; Ok(())
CommitA0 == Commit("a2a0_commit", "A0")

\* a power-down that writes the enable the wrong way round
DisableTofinoBug == SetTofinoEnabled("a0a2_disable", TRUE, "a0a2_commit")

\* A0 -> A2: self.set_tofino_enabled(false)
DisableTofino == SetTofinoEnabled("a0a2_disable", FALSE, "a0a2_commit")

\* a power-down that leaves self.state as it was
CommitA2Bug == Commit("a0a2_commit", "A0")

\* A0 -> A2: self.state = PowerState::A2; Ok(())
CommitA2 == Commit("a0a2_commit", "A2")

\* a load_clock_config that puts the power state back to its initial value
LoadClockConfigBug ==
  /\ BeginCall("load_clock_config", "none")
  /\ packet' = 0
  /\ pc' = "clk_write"
  /\ state' = "A2"
  /\ UNCHANGED <<nvars, bvars, gvars, vid, deadline, i, seq_state, tofinoEn, vout, led,
                 timer, ticks, deadline0, committed>>

\* load_clock_config is received: let mut packet = 0
LoadClockConfig ==
  /\ BeginCall("load_clock_config", "none")
  /\ packet' = 0
  /\ pc' = "clk_write"
  /\ UNCHANGED <<nvars, bvars, gvars, state, vid, deadline, i, seq_state, tofinoEn, vout, led,
                 timer, ticks, deadline0, committed>>

\* payload::idt8a3xxxx_payload(f): after f has answered r for the n-th packet
\* the payload hands f the next packet if r is Ok and there is one; otherwise
\* it returns r
PayloadHandsNext(n, r) == r = "Ok" /\ n < NumPackets

\* a closure that answers Ok whatever the write returned
WriteAnswerBug(ok) == "Ok"

\* what the closure answers for a write that succeeded or failed
WriteAnswer(ok) == IF ok THEN "Ok" ELSE "ClockConfigFailed"

\* the closure runs on the next packet: self.clockgen.write(buf), then the trace
\* entry ClockConfigSuccess(packet) or ClockConfigFailed(packet, err); packet
\* is counted up after a success. The packets handed so far are the entries
\* of ops.
ClockConfigWrite ==
  /\ pc = "clk_write"
  /\ \E ok \in BOOLEAN :
       /\ ops' = Append(ops, <<"clk", packet, IF ok THEN "ok" ELSE "err">>)
       /\ IF PayloadHandsNext(Len(ops) + 1, WriteAnswer(ok))
            THEN /\ packet' = (IF ok THEN packet + 1 ELSE packet)
                 /\ pc' = "clk_write"
                 /\ UNCHANGED <<nvars, bvars, gvars, call, i, seq_state>>
            ELSE Return(WriteAnswer(ok))
  /\ UNCHANGED <<nvars, bvars, gvars, state, vid, deadline, tofinoEn, vout, led,
                 timer, prev, ticks, deadline0, committed>>

\* a handler that re-arms the timer before it advances the deadline
HandleNotificationBug ==
  /\ pc = "idle"
  /\ ticks < MaxTicks
  /\ \/ /\ deadline' = deadline + TIMER_INTERVAL
        /\ led' = 1 - led
        /\ timer' = deadline
        /\ ticks' = ticks + 1
        /\ UNCHANGED <<nvars, bvars, gvars, pc, state, vid, i, seq_state, packet, tofinoEn, vout,
                       call, prev, ops, deadline0, committed>>
     \/ Panic

\* handle_notification: deadline += TIMER_INTERVAL; led_toggle; sys_set_timer
HandleNotification ==
  /\ pc = "idle"
  /\ ticks < MaxTicks
  /\ \/ /\ deadline' = deadline + TIMER_INTERVAL
        /\ led' = 1 - led
        /\ timer' = deadline + TIMER_INTERVAL
        /\ ticks' = ticks + 1
        /\ UNCHANGED <<nvars, bvars, gvars, pc, state, vid, i, seq_state, packet, tofinoEn, vout,
                       call, prev, ops, deadline0, committed>>
     \/ Panic

\* the task is restarted: main builds a new ServerImpl, the hardware is as it was
Restart ==
  /\ pc' = "idle"
  /\ state' = "A2"
  /\ vid' = "Invalid"
  /\ \E now \in StartNows :
        /\ deadline0' = now
        /\ deadline' = now
        /\ timer' = now
  /\ i' = 0
  /\ seq_state' = 0
  /\ packet' = 0
  /\ call' = NoCall
  /\ prev' = NoPrev
  /\ ops' = <<>>
  /\ ticks' = 0
  /\ committed' = "A2"
  /\ UNCHANGED <<nvars, bvars, gvars, tofinoEn, vout, led>>

Next ==
  \/ GetState
  \/ SetState
  \/ EnableTofino
  \/ FirstSeqRead
  \/ PollSleep
  \/ PollRead
  \/ PollDone
  \/ GetTofinoVid
  \/ CheckVid
  \/ EjectTofino
  \/ ReturnInvalidVid
  \/ ApplyVid
  \/ CommitA0
  \/ DisableTofino
  \/ CommitA2
  \/ LoadClockConfig
  \/ ClockConfigWrite
  \/ HandleNotification
  \/ Restart

Spec == Init /\ [][Next]_vars

\* set_state alone, with a sequencer that is at phase 9 at the first read and a
\* VID register that reads any byte
InitVid ==
  /\ ServerInit({0})
  /\ GimletInit({"gimlet-1"}, {{}}, {CHUNK_SIZE})
  /\ Stage0Init({NoImage}, {0}, {FALSE})
  /\ VscInit

NextVid ==
  \/ SetState
  \/ EnableTofino
  \/ FirstSeqReadReady
  \/ PollDone
  \/ GetTofinoVidAnyByte
  \/ CheckVid
  \/ EjectTofino
  \/ ReturnInvalidVid
  \/ ApplyVid
  \/ CommitA0
  \/ DisableTofino
  \/ CommitA2

SpecVid == InitVid /\ [][NextVid]_vars

(***************************************************************************)
(* Properties of the Sidecar sequencer server.                             *)
(***************************************************************************)

\* the positions in a log of the entries of one kind
Idx(log, kind) == {k \in 1..Len(log) : log[k][1] = kind}

\* the largest element of a non-empty set of numbers
MaxOf(S) == CHOOSE m \in S : \A x \in S : x <= m

\* the value of the last write to TOFINO_EN in a log, -1 when there is none
LastEn(log) == IF Idx(log, "en") = {} THEN -1 ELSE log[MaxOf(Idx(log, "en"))][2]

\* the call in progress or last returned is set_state(A0) entered in A2
A2A0 == call.op = "set_state" /\ call.pre = "A2" /\ call.req = "A0"

\* the call in progress or last returned is set_state(A2) entered in A0
A0A2 == call.op = "set_state" /\ call.pre = "A0" /\ call.req = "A2"

\* the last call has returned to its caller
Returned == call.ret \notin {"none", "pending"}

Failures == {"SequencerTimeout", "InvalidVid", "IllegalTransition", "ClockConfigFailed"}

\* C1: set_state(Active) from Standby in which every read of the sequencer
\* status register returns a phase below 9 leaves the PowerState Standby
\* throughout and, when it returns, returns SequencerTimeout.
C1_SequencerTimeout ==
  (A2A0 /\ \A k \in Idx(ops, "seq") : ops[k][2] < 9)
    => /\ state = "A2"
       /\ Returned => call.ret = "SequencerTimeout"

\* C1 witness: a Standby-to-Active call has returned SequencerTimeout after
\* six reads below 9.
C1_Witness ==
  /\ A2A0
  /\ call.ret = "SequencerTimeout"
  /\ Cardinality(Idx(ops, "seq")) = 6
  /\ \A k \in Idx(ops, "seq") : ops[k][2] < 9
  /\ state = "A2"

\* C2: set_state(Active) from Standby that read a phase of 9 or more and then
\* a VID byte outside 0b1000..0b1111 returns InvalidVid, the PowerState is
\* Standby, the regulator was not written in the call, and the last write to
\* the enable register in the call is 0 (disabled).
C2_InvalidVid ==
  (A2A0 /\ (\E k \in Idx(ops, "seq") : ops[k][2] >= 9)
        /\ (\E k \in Idx(ops, "vid") : ops[k][2] \notin 8..15))
    => /\ state = "A2"
       /\ Idx(ops, "vout") = {}
       /\ Returned => /\ call.ret = "InvalidVid"
                      /\ LastEn(ops) = 0
                      /\ tofinoEn = 0

\* C2 witness: a Standby-to-Active call has returned InvalidVid.
C2_Witness ==
  /\ A2A0
  /\ call.ret = "InvalidVid"
  /\ \E k \in Idx(ops, "vid") : ops[k][2] \notin 8..15
  /\ ops[Len(ops)] = <<"en", 0>>

\* the step is the handling of a request of the given kind
CallStep(op) == call'.op = op /\ <<call, prev>>' # <<call, prev>>

C3_State ==
  /\ (call.op = "set_state" /\ call.pre = call.req)
       => /\ call.ret = "IllegalTransition"
          /\ ops = <<>>
          /\ state = call.pre
  /\ (/\ prev.op = "set_state" /\ prev.req = "A0" /\ prev.ret = "Ok"
      /\ call.op = "set_state" /\ call.req = "A0")
       => /\ call.ret = "IllegalTransition"
          /\ prev.ens + NumEnables(ops) = 1

C3_Step ==
  (CallStep("set_state") /\ call'.pre = call'.req)
    => UNCHANGED <<state, vid, tofinoEn, vout, led, deadline, timer>>

\* C3: set_state with requested = current (the only pairs besides
\* (Standby, Active) and (Active, Standby)) returns IllegalTransition at once,
\* with no hardware step and the PowerState, the stored VID, the enable
\* register and the regulator as they were; and when set_state(Active) has
\* returned Ok and the next call is set_state(Active), that call returns
\* IllegalTransition and the two calls together wrote "enabled" exactly once.
C3_IllegalTransition == [](C3_State) /\ [][C3_Step]_vars

\* C3 witness: set_state(Active) returned Ok and the set_state(Active) after
\* it has returned IllegalTransition.
C3_Witness ==
  /\ prev.op = "set_state" /\ prev.req = "A0" /\ prev.ret = "Ok" /\ prev.ens = 1
  /\ call.op = "set_state" /\ call.req = "A0" /\ call.pre = "A0"
  /\ call.ret = "IllegalTransition"

\* C4: when a Standby-to-Active call has made the PowerState Active, the call
\* did, in this order: write "enabled" first, read a phase of 9 or more, read
\* a valid VID byte, write the regulator with the set-point of that byte, and
\* last of all write the state; each of the four writes and the VID read
\* happened once.
C4_CommitOrder ==
  (A2A0 /\ state = "A0")
    => LET n == Len(ops)
       IN  /\ n >= 5
           /\ ops[1] = <<"en", 1>>
           /\ ops[n - 3][1] = "seq" /\ ops[n - 3][2] >= 9
           /\ ops[n - 2][1] = "vid" /\ ops[n - 2][2] \in 8..15
           /\ ops[n - 1] = <<"vout", VidMillivolts(VidDecode(ops[n - 2][2]))>>
           /\ ops[n] = <<"state", "A0">>
           /\ vout = ops[n - 1][2]
           /\ Cardinality(Idx(ops, "en")) = 1
           /\ Cardinality(Idx(ops, "vid")) = 1
           /\ Cardinality(Idx(ops, "vout")) = 1
           /\ Cardinality(Idx(ops, "state")) = 1

\* C4 witness: a Standby-to-Active call has returned Ok after a poll that
\* first read a phase below 9.
C4_Witness ==
  /\ A2A0
  /\ call.ret = "Ok"
  /\ state = "A0"
  /\ Cardinality(Idx(ops, "seq")) >= 2

C5_State ==
  /\ call.ret \in Failures => state = call.pre
  /\ call.ret = "pending" => state = call.pre
  /\ Cardinality(Idx(ops, "state")) <= 1

C5_Step ==
  (state' # state /\ call' # NoCall)
    => /\ call.op = "set_state"
       /\ call.ret = "pending"
       /\ call'.ret = "Ok"
       /\ state' = call.req

\* C5: between restarts the PowerState changes only in the step in which a
\* set_state call returns Ok, and to the state that call asked for; a call has
\* at most one state write; and while a call is in progress, and after a call
\* that returned SequencerTimeout, InvalidVid, IllegalTransition or
\* ClockConfigFailed, the PowerState is what it was when the call began.
C5_StateWrittenOnSuccess == [](C5_State) /\ [][C5_Step]_vars

\* C5 witness: load_clock_config has returned ClockConfigFailed while Active.
C5_Witness ==
  /\ call.op = "load_clock_config"
  /\ call.ret = "ClockConfigFailed"
  /\ call.pre = "A0"
  /\ state = "A0"

\* C6: set_state(Standby) entered in Active, when it returns, returns Ok with
\* the PowerState Standby and the enable register 0, having done exactly the
\* enable write and the state write: no read of the status or VID register
\* and no sleep happen in it.
C6_PowerDown ==
  /\ (A0A2 /\ Returned)
       => /\ call.ret = "Ok"
          /\ state = "A2"
          /\ ops = << <<"en", 0>>, <<"state", "A2">> >>
          /\ tofinoEn = 0
  /\ A0A2 => /\ Idx(ops, "seq") = {}
             /\ Idx(ops, "vid") = {}
             /\ Idx(ops, "sleep") = {}

\* C6 witness: set_state(Standby) entered in Active has returned.
C6_Witness == A0A2 /\ Returned /\ prev.op = "set_state" /\ prev.ret = "Ok"

\* every status read but the last of the log is followed by a sleep of the
\* given length and then the next status read, and no other sleep occurs
PollsSpaced(log, t) ==
  /\ \A k \in Idx(log, "seq") :
       k # MaxOf(Idx(log, "seq"))
         => log[k + 1] = <<"sleep", t>> /\ log[k + 2][1] = "seq"
  /\ \A k \in Idx(log, "sleep") :
       /\ k > 1
       /\ log[k - 1][1] = "seq"
       /\ log[k] = <<"sleep", t>>

\* C7 as stated: one Standby-to-Active attempt reads the status register at
\* most 5 times, 10 time-units apart, and is timed out once those reads have
\* all returned a phase below 9.
C7_AtMostFivePolls ==
  A2A0 => /\ Cardinality(Idx(ops, "seq")) <= 5
          /\ (Returned \/ Idx(ops, "vid") # {}) => PollsSpaced(ops, 10)
          /\ (/\ Returned
              /\ Cardinality(Idx(ops, "seq")) >= 5
              /\ \A k \in Idx(ops, "seq") : k <= 9 => ops[k][2] < 9)
               => call.ret = "SequencerTimeout"

\* C7 amended: one Standby-to-Active attempt reads the status register at
\* most 6 times (one read at once, then up to 5 more, each after a sleep of 10
\* time-units); a read of 9 or more is the last read; and the attempt returns
\* SequencerTimeout exactly when six reads have all returned a phase below 9.
C7_AtMostSixPolls ==
  A2A0 => /\ Cardinality(Idx(ops, "seq")) <= 6
          /\ Cardinality(Idx(ops, "sleep")) <= 5
          /\ (Returned \/ Idx(ops, "vid") # {}) => PollsSpaced(ops, 10)
          /\ \A k \in Idx(ops, "seq") :
               ops[k][2] >= 9 => k = MaxOf(Idx(ops, "seq"))
          /\ Returned =>
               (call.ret = "SequencerTimeout"
                  <=> /\ Cardinality(Idx(ops, "seq")) = 6
                      /\ \A k \in Idx(ops, "seq") : ops[k][2] < 9)

\* C7 witness: the sixth read of an attempt, after five reads below 9 and five
\* sleeps, returned 9 and the attempt went on to succeed.
C7_Witness ==
  /\ A2A0
  /\ call.ret = "Ok"
  /\ Cardinality(Idx(ops, "seq")) = 6
  /\ Cardinality(Idx(ops, "sleep")) = 5
  /\ ops[MaxOf(Idx(ops, "seq"))][2] = 9

C8_State ==
  call.op = "get_state"
    => /\ call.ret = "Ok"
       /\ call.val = committed
       /\ call.val = state
       /\ ops = <<>>

C8_Step ==
  CallStep("get_state")
    => UNCHANGED <<state, vid, tofinoEn, vout, led, deadline, timer, committed>>

\* C8: get_state returns Ok at once with the state asked for by the last
\* set_state that returned Ok since the server started, or A2 (Standby) when
\* there is none, and its step leaves the PowerState, the enable register, the
\* regulator, the LED and the timer as they were.
C8_GetState == [](C8_State) /\ [][C8_Step]_vars

\* C8 witness: get_state has returned Active.
C8_Witness ==
  /\ call.op = "get_state"
  /\ call.ret = "Ok"
  /\ call.val = "A0"
  /\ prev.op = "set_state" /\ prev.ret = "Ok" /\ prev.req = "A0"

(***************************************************************************)
(* The Gimlet sequencer bring-up (main of drv/gimlet-seq-server).          *)
(***************************************************************************)

\* an .unwrap() on a failed GPIO call: the task panics where it stands
GPanic ==
  /\ gpc' = "halted"
  /\ UNCHANGED <<nvars, bvars, svars, board, odr, outPins, idr, lastWrite, wrote, sawPg, sinceIo,
                 warm, spiHeld, bsLen, sent, loadLog, failed>>

\* gpio.set_reset(port, set, clear): the bits of set go high, those of clear low
GpioSetReset(port, set, clear) ==
  /\ odr' = (odr \ Pins(port, clear)) \cup Pins(port, set)
  /\ lastWrite' = [port |-> port, set |-> set, clear |-> clear]
  /\ sinceIo' = 0

\* gpio.configure(port, mask, Mode::Output, ..): the mode changes, the level
\* the pin drives is the one its data register bit already holds
GpioConfigureOutput(port, mask) ==
  /\ outPins' = outPins \cup Pins(port, mask)

\* gpio.configure(port, mask, Mode::Input, ..)
GpioConfigureInput(port, mask) ==
  /\ outPins' = outPins \ Pins(port, mask)

\* Unconditionally set our power-good detects as inputs
ConfigurePgs ==
  /\ gpc = "start"
  /\ \/ /\ GpioConfigureInput(PGS_PORT, PG_V1P2_MASK \cup PG_V3P3_MASK)
        /\ gpc' = "cfg_enables"
        /\ sinceIo' = 0
        /\ UNCHANGED <<nvars, bvars, svars, board, odr, idr, lastWrite, wrote, sawPg,
                       warm, spiHeld, bsLen, sent, loadLog, failed>>
     \/ GPanic

\* a configuration of the enables that first drives them low
ConfigureEnablesBug ==
  /\ gpc = "cfg_enables"
  /\ GpioSetReset(ENABLES_PORT, {}, ENABLE_V1P2_MASK \cup ENABLE_V3P3_MASK)
  /\ GpioConfigureOutput(ENABLES_PORT, ENABLE_V1P2_MASK \cup ENABLE_V3P3_MASK)
  /\ gpc' = "cfg_ice40"
  /\ UNCHANGED <<nvars, bvars, svars, board, idr, wrote, sawPg, warm, spiHeld, bsLen, sent, loadLog, failed>>

\* Unconditionally set our sequencing-related GPIOs to outputs
ConfigureEnables ==
  /\ gpc = "cfg_enables"
  /\ \/ /\ GpioConfigureOutput(ENABLES_PORT, ENABLE_V1P2_MASK \cup ENABLE_V3P3_MASK)
        /\ gpc' = "cfg_ice40"
        /\ sinceIo' = 0
        /\ UNCHANGED <<nvars, bvars, svars, board, odr, idr, lastWrite, wrote, sawPg,
                       warm, spiHeld, bsLen, sent, loadLog, failed>>
     \/ GPanic

\* ice40::configure_pins: CRESETB becomes an output that is high, CDONE an input
Ice40ConfigurePins ==
  /\ gpc = "cfg_ice40"
  /\ odr' = odr \cup Pins(CresetPort, CresetMask)
  /\ outPins' = (outPins \cup Pins(CresetPort, CresetMask)) \ Pins(CdonePort, CdoneMask)
  /\ gpc' = "creset_low"
  /\ sinceIo' = 0
  /\ UNCHANGED <<nvars, bvars, svars, board, idr, lastWrite, wrote, sawPg,
                 warm, spiHeld, bsLen, sent, loadLog, failed>>

\* Force iCE40 CRESETB low before turning power on
CresetLow ==
  /\ gpc = "creset_low"
  /\ \/ /\ GpioSetReset(CresetPort, {}, CresetMask)
        /\ gpc' = "en_v1p2"
        /\ UNCHANGED <<nvars, bvars, svars, board, outPins, idr, wrote, sawPg,
                       warm, spiHeld, bsLen, sent, loadLog, failed>>
     \/ GPanic

\* a rail's enable is written: gpio.set_reset(ENABLES_PORT, set, clear)
EnableRail(at, rail, set, clear, to) ==
  /\ gpc = at
  /\ \/ /\ GpioSetReset(ENABLES_PORT, set, clear)
        /\ wrote' = wrote \cup {rail}
        /\ gpc' = to
        /\ UNCHANGED <<nvars, bvars, svars, board, outPins, idr, sawPg,
                       warm, spiHeld, bsLen, sent, loadLog, failed>>
     \/ GPanic

\* hl::sleep_for(t)
SleepFor(at, t, to) ==
  /\ gpc = at
  /\ sinceIo' = sinceIo + t
  /\ gpc' = to
  /\ UNCHANGED <<nvars, bvars, svars, board, odr, outPins, idr, lastWrite, wrote, sawPg,
                 warm, spiHeld, bsLen, sent, loadLog, failed>>

\* a power-good test that takes the input for active low
PgGoodBug(input, mask) == (input \cap mask) = {}

\* let pg = gpio.read_input(PGS_PORT).unwrap() & mask != 0
PgGood(input, mask) == (input \cap mask) # {}

\* one turn of a rail's loop: read the power-good, break if it is asserted
PollPg(at, rail, pg, asserted, again, to) ==
  /\ gpc = at
  /\ \/ /\ sinceIo' = 0
        /\ sawPg' = (IF asserted THEN sawPg \cup {rail} ELSE sawPg)
        /\ gpc' = (IF pg THEN to ELSE again)
        /\ UNCHANGED <<nvars, bvars, svars, board, odr, outPins, idr, lastWrite, wrote,
                       warm, spiHeld, bsLen, sent, loadLog, failed>>
     \/ GPanic

\* gpio.set_reset(ENABLES_PORT, ENABLE_V1P2_MASK, 0)
EnableV1P2 == EnableRail("en_v1p2", "V1P2", ENABLE_V1P2_MASK, {}, "settle_v1p2")

SettleV1P2 == SleepFor("settle_v1p2", 2, "poll_v1p2")

\* the V1P2 loop: the read and the break
PollV1P2 ==
  PollPg("poll_v1p2", "V1P2", PgGood(ReadInput, PG_V1P2_MASK), "V1P2" \in idr,
         "sleep_v1p2", "en_v3p3")

\* a V1P2 loop that retries after half the interval
SleepV1P2Bug == SleepFor("sleep_v1p2", 1, "poll_v1p2")

\* the V1P2 loop: hl::sleep_for(2) before the next read
SleepV1P2 == SleepFor("sleep_v1p2", 2, "poll_v1p2")

\* gpio.set_reset(ENABLES_PORT, ENABLE_V3P3_MASK, 0)
EnableV3P3 == EnableRail("en_v3p3", "V3P3", ENABLE_V3P3_MASK, {}, "settle_v3p3")

SettleV3P3 == SleepFor("settle_v3p3", 2, "poll_v3p3")

\* the V3P3 loop: the read and the break
PollV3P3 ==
  PollPg("poll_v3p3", "V3P3", PgGood(ReadInput, PG_V3P3_MASK), "V3P3" \in idr,
         "sleep_v3p3", "wait_fpga")

SleepV3P3 == SleepFor("sleep_v3p3", 2, "poll_v3p3")

\* hl::sleep_for(1 + 10)
WaitFpga == SleepFor("wait_fpga", 1 + 10, "hack_pins")

\* the data register after the first n entries of FPGA_HACK_PINS are applied
RECURSIVE HackOdr(_, _)
HackOdr(o, n) ==
  IF n = 0 THEN o
  ELSE LET e == FPGA_HACK_PINS[n]
           before == HackOdr(o, n - 1)
       IN  IF e[3] THEN before \cup Pins(e[1], e[2])
                   ELSE before \ Pins(e[1], e[2])

HackPinSet == UNION {Pins(FPGA_HACK_PINS[k][1], FPGA_HACK_PINS[k][2]) :
                       k \in 1..Len(FPGA_HACK_PINS)}

\* if let Some(hacks) = FPGA_HACK_PINS: each pin is written, then made an output
ApplyHackPins ==
  /\ gpc = "hack_pins"
  /\ \/ /\ odr' = HackOdr(odr, Len(FPGA_HACK_PINS))
        /\ outPins' = outPins \cup HackPinSet
        /\ lastWrite' =
             (IF FPGA_HACK_PINS = <<>> THEN lastWrite
              ELSE LET e == FPGA_HACK_PINS[Len(FPGA_HACK_PINS)]
                   IN  [port |-> e[1],
                        set |-> (IF e[3] THEN e[2] ELSE {}),
                        clear |-> (IF e[3] THEN {} ELSE e[2])])
        /\ sinceIo' = (IF FPGA_HACK_PINS = <<>> THEN sinceIo ELSE 0)
        /\ gpc' = "global_reset"
        /\ UNCHANGED <<nvars, bvars, svars, board, idr, wrote, sawPg,
                       warm, spiHeld, bsLen, sent, loadLog, failed>>
     \/ /\ FPGA_HACK_PINS # <<>>
        /\ GPanic

\* if let Some((port, pin_mask)) = GLOBAL_RESET: set the pin, make it an output
ConfigureGlobalReset ==
  /\ gpc = "global_reset"
  /\ \/ /\ GLOBAL_RESET = <<>>
        /\ gpc' = "assert_reset"
        /\ UNCHANGED <<nvars, bvars, svars, board, odr, outPins, idr, lastWrite, wrote, sawPg,
                       sinceIo, warm, spiHeld, bsLen, sent, loadLog, failed>>
     \/ /\ GLOBAL_RESET # <<>>
        /\ GpioSetReset(GLOBAL_RESET[1], GLOBAL_RESET[2], {})
        /\ GpioConfigureOutput(GLOBAL_RESET[1], GLOBAL_RESET[2])
        /\ gpc' = "assert_reset"
        /\ UNCHANGED <<nvars, bvars, svars, board, idr, wrote, sawPg,
                       warm, spiHeld, bsLen, sent, loadLog, failed>>
     \/ /\ GLOBAL_RESET # <<>>
        /\ GPanic

\* a write of the design reset net, where there is one
DesignReset(at, set, clear, to) ==
  /\ gpc = at
  /\ \/ /\ GLOBAL_RESET = <<>>
        /\ gpc' = to
        /\ UNCHANGED <<nvars, bvars, svars, board, odr, outPins, idr, lastWrite, wrote, sawPg,
                       sinceIo, warm, spiHeld, bsLen, sent, loadLog, failed>>
     \/ /\ GLOBAL_RESET # <<>>
        /\ GpioSetReset(GLOBAL_RESET[1], set, clear)
        /\ gpc' = to
        /\ UNCHANGED <<nvars, bvars, svars, board, outPins, idr, wrote, sawPg,
                       warm, spiHeld, bsLen, sent, loadLog, failed>>
     \/ /\ GLOBAL_RESET # <<>>
        /\ GPanic

\* Assert the design reset signal: gpio.set_reset(port, 0, pin_mask)
\* a bring-up that goes on to the load without asserting the design reset
AssertDesignResetBug == DesignReset("assert_reset", {}, {}, "spi_device")

\* a reprogramming decision that skips the load when the task was restarted
\* with the rails already up
ReprogramBug == ~warm

\* let reprogram = true
Reprogram == TRUE

\* if reprogram { Assert the design reset signal: set_reset(port, 0, pin_mask);
\* loop { .. }; deassert }: without reprogram main goes on past the load
AssertDesignReset ==
  IF Reprogram
    THEN DesignReset("assert_reset", {},
                     IF GLOBAL_RESET = <<>> THEN {} ELSE GLOBAL_RESET[2], "spi_device")
    ELSE /\ gpc = "assert_reset"
         /\ gpc' = "steady"
         /\ UNCHANGED <<nvars, bvars, svars, board, odr, outPins, idr, lastWrite, wrote, sawPg,
                        sinceIo, warm, spiHeld, bsLen, sent, loadLog, failed>>

\* let prog = spi.device(ICE40_SPI_DEVICE): an attempt starts
SpiDevice ==
  /\ gpc = "spi_device"
  /\ sent' = <<>>
  /\ loadLog' = <<>>
  /\ gpc' = "begin"
  /\ UNCHANGED <<nvars, bvars, svars, board, odr, outPins, idr, lastWrite, wrote, sawPg,
                 sinceIo, warm, spiHeld, bsLen, failed>>

\* ice40::begin_bitstream_load: CRESETB is asserted, the ready signal must read
\* deasserted, CRESETB is released and the device enters configuration mode
BeginBitstreamLoad ==
  /\ gpc = "begin"
  /\ \/ /\ odr' = odr \cup Pins(CresetPort, CresetMask)
        /\ lastWrite' = [port |-> CresetPort, set |-> CresetMask, clear |-> {}]
        /\ spiHeld' = TRUE
        /\ loadLog' = Append(loadLog, <<"begin", 0, 0, TRUE>>)
        /\ gpc' = "continue"
     \/ /\ odr' = odr \ Pins(CresetPort, CresetMask)
        /\ lastWrite' = [port |-> CresetPort, set |-> {}, clear |-> CresetMask]
        /\ spiHeld' \in BOOLEAN
        /\ loadLog' = Append(loadLog, <<"begin", 0, 0, FALSE>>)
        /\ gpc' = "release"
  /\ sinceIo' = 0
  /\ UNCHANGED <<nvars, bvars, svars, board, outPins, idr, wrote, sawPg, warm, bsLen, sent,
                 failed>>

\* the bytes already given to continue_bitstream_load in this attempt
RECURSIVE SentBytes(_, _)
SentBytes(chunks, n) ==
  IF n = 0 THEN 0 ELSE SentBytes(chunks, n - 1) + chunks[n][2]

\* a chunk iterator that never shortens the last chunk
ChunkAtBug(off) == <<off, CHUNK_SIZE>>

\* BITSTREAM.chunks(CHUNK_SIZE): the chunk at an offset, as <<offset, length>>
ChunkAt(off) == <<off, IF bsLen - off < CHUNK_SIZE THEN bsLen - off ELSE CHUNK_SIZE>>

\* a chunk iterator that stops one chunk early
MoreChunksBug(off, len) == off + len + CHUNK_SIZE < bsLen

\* the chunk iterator yields another chunk after the one of this length at this
\* offset
MoreChunks(off, len) == off + len < bsLen

\* for chunk in BITSTREAM.chunks(CHUNK_SIZE) { continue_bitstream_load(chunk)? }
ContinueBitstreamLoad ==
  /\ gpc = "continue"
  /\ LET off == SentBytes(sent, Len(sent))
         chunk == ChunkAt(off)
     IN  \/ /\ sent' = Append(sent, chunk)
            /\ loadLog' = Append(loadLog, <<"continue", chunk[1], chunk[2], TRUE>>)
            /\ gpc' = (IF MoreChunks(off, chunk[2]) THEN "continue" ELSE "finish")
            /\ UNCHANGED spiHeld
         \/ /\ gpc' = "release"
            /\ loadLog' = Append(loadLog, <<"continue", chunk[1], chunk[2], FALSE>>)
            /\ spiHeld' \in BOOLEAN
            /\ UNCHANGED sent
  /\ UNCHANGED <<nvars, bvars, svars, board, odr, outPins, idr, lastWrite, wrote, sawPg,
                 sinceIo, warm, bsLen, failed>>

\* ice40::finish_bitstream_load: configuration mode is left, the ready signal
\* is polled for "configured"
FinishBitstreamLoad ==
  /\ gpc = "finish"
  /\ \/ /\ gpc' = "deassert_reset"
        /\ loadLog' = Append(loadLog, <<"finish", 0, 0, TRUE>>)
        /\ spiHeld' = FALSE
     \/ /\ gpc' = "release"
        /\ loadLog' = Append(loadLog, <<"finish", 0, 0, FALSE>>)
        /\ spiHeld' \in BOOLEAN
  /\ UNCHANGED <<nvars, bvars, svars, board, odr, outPins, idr, lastWrite, wrote, sawPg,
                 sinceIo, warm, bsLen, sent, failed>>

\* a retry loop that gives up when release answers an error
ReleaseAndRetryBug ==
  /\ gpc = "release"
  /\ spiHeld' = FALSE
  /\ failed' = (IF failed < MaxFailed THEN failed + 1 ELSE failed)
  /\ gpc' = (IF spiHeld THEN "spi_device" ELSE "halted")
  /\ UNCHANGED <<nvars, bvars, svars, board, odr, outPins, idr, lastWrite, wrote, sawPg,
                 sinceIo, warm, bsLen, sent, loadLog>>

\* Err(_) => { let _ = prog.release(); }: whatever release answers is dropped
ReleaseAndRetry ==
  /\ gpc = "release"
  /\ spiHeld' = FALSE
  /\ failed' = (IF failed < MaxFailed THEN failed + 1 ELSE failed)
  /\ gpc' = "spi_device"
  /\ UNCHANGED <<nvars, bvars, svars, board, odr, outPins, idr, lastWrite, wrote, sawPg,
                 sinceIo, warm, bsLen, sent, loadLog>>

\* Deassert design reset signal: gpio.set_reset(port, pin_mask, 0)
DeassertDesignReset ==
  DesignReset("deassert_reset",
              IF GLOBAL_RESET = <<>> THEN {} ELSE GLOBAL_RESET[2], {}, "steady")

\* loop { hl::sleep_for(1); }
SteadySleep ==
  /\ gpc = "steady"
  /\ sinceIo' = 1
  /\ UNCHANGED <<nvars, bvars, svars, gpc, board, odr, outPins, idr, lastWrite, wrote, sawPg,
                 warm, spiHeld, bsLen, sent, loadLog, failed>>

\* a power-good input changes level
PgChange ==
  /\ \E rail \in {"V1P2", "V3P3"} :
       idr' = (IF rail \in idr THEN idr \ {rail} ELSE idr \cup {rail})
  /\ UNCHANGED <<nvars, bvars, svars, gpc, board, odr, outPins, lastWrite, wrote, sawPg,
                 sinceIo, warm, spiHeld, bsLen, sent, loadLog, failed>>

\* the task is restarted: main runs again from the top, the pins are as they were
GimletRestart ==
  /\ gpc' = "start"
  /\ wrote' = {}
  /\ sawPg' = {}
  /\ sinceIo' = 0
  /\ sent' = <<>>
  /\ loadLog' = <<>>
  /\ failed' = 0
  /\ lastWrite' = NoWrite
  /\ warm' = (warm \/ (EnablePins \cap odr \cap outPins) # {})
  /\ UNCHANGED <<nvars, bvars, svars, board, odr, outPins, idr, spiHeld, bsLen>>

NextGimlet ==
  \/ ConfigurePgs
  \/ ConfigureEnables
  \/ Ice40ConfigurePins
  \/ CresetLow
  \/ EnableV1P2
  \/ SettleV1P2
  \/ PollV1P2
  \/ SleepV1P2
  \/ EnableV3P3
  \/ SettleV3P3
  \/ PollV3P3
  \/ SleepV3P3
  \/ WaitFpga
  \/ ApplyHackPins
  \/ ConfigureGlobalReset
  \/ AssertDesignReset
  \/ SpiDevice
  \/ BeginBitstreamLoad
  \/ ContinueBitstreamLoad
  \/ FinishBitstreamLoad
  \/ ReleaseAndRetry
  \/ DeassertDesignReset
  \/ SteadySleep
  \/ PgChange
  \/ GimletRestart

SpecGimlet == InitGimlet /\ [][NextGimlet]_vars

\* a step of main itself: everything but a change of an input and a restart
MainStep ==
  \/ ConfigurePgs
  \/ ConfigureEnables
  \/ Ice40ConfigurePins
  \/ CresetLow
  \/ EnableV1P2
  \/ SettleV1P2
  \/ PollV1P2
  \/ SleepV1P2
  \/ EnableV3P3
  \/ SettleV3P3
  \/ PollV3P3
  \/ SleepV3P3
  \/ WaitFpga
  \/ ApplyHackPins
  \/ ConfigureGlobalReset
  \/ AssertDesignReset
  \/ SpiDevice
  \/ BeginBitstreamLoad
  \/ ContinueBitstreamLoad
  \/ FinishBitstreamLoad
  \/ ReleaseAndRetry
  \/ DeassertDesignReset
  \/ SteadySleep

\* the task is scheduled: a sleep ends and a call returns, so main takes its
\* next step
SpecGimletLive == InitGimlet /\ [][NextGimlet]_vars /\ WF_vars(MainStep)
(***************************************************************************)
(* Properties of the Gimlet sequencer bring-up.                            *)
(***************************************************************************)

\* how far main has come: the place of gpc in the program order, 0 when the
\* task has panicked
RankOf(p) == IF p = "halted" THEN 0 ELSE Rank(p)

\* C9: in one run of main the V3P3 enable is written, and main is at or past
\* that write, only after a read of the V1P2 power-good returned asserted; and
\* main is past the V3P3 loop (the FPGA wait, the reset handling, the
\* bitstream load, the steady loop) only after a read of the V3P3 power-good
\* returned asserted.
C9_RailOrder ==
  /\ "V3P3" \in wrote => "V1P2" \in sawPg
  /\ RankOf(gpc) >= Rank("en_v3p3") => "V1P2" \in sawPg
  /\ RankOf(gpc) >= Rank("wait_fpga") => {"V1P2", "V3P3"} \subseteq sawPg
  /\ (sent # <<>> \/ RankOf(gpc) >= Rank("begin")) => "V3P3" \in wrote

\* C9 witness: main has brought up both rails and loaded the bitstream.
C9_Witness ==
  /\ gpc = "steady"
  /\ wrote = {"V1P2", "V3P3"}
  /\ sawPg = {"V1P2", "V3P3"}
  /\ EnablePins \subseteq odr

C10_State ==
  lastWrite.port = ENABLES_PORT
    => lastWrite.clear \cap (ENABLE_V1P2_MASK \cup ENABLE_V3P3_MASK) = {}

C10_Step ==
  \A p \in EnablePins :
    /\ p \in odr => p \in odr'
    /\ p \in outPins => p \in outPins'

\* C10: across any number of restarts of the task and runs of main, a rail
\* enable whose data register bit is set keeps it set and an enable pin that
\* is an output stays one (the pin configuration changes no level), and every
\* set_reset call on the rail-enable port has no rail-enable bit in its
\* clear-mask.
C10_NoGlitch == [](C10_State) /\ [][C10_Step]_vars

\* C10 witness: after a restart with a rail enable driven high, main has run
\* again, both enables are high, and the last write was one on the rail-enable
\* port with a clear-mask that is not empty (the design reset net).
C10_Witness ==
  /\ warm
  /\ EnablePins \subseteq odr \cap outPins
  /\ wrote = {"V1P2", "V3P3"}
  /\ lastWrite.port = ENABLES_PORT
  /\ lastWrite.clear # {}

(***************************************************************************)
(* Bitstream load: chunking, retry and call order.                         *)
(***************************************************************************)
\* the least number of pieces of size d that hold n bytes
Ceil(n, d) == (n + d - 1) \div d

\* the attempt in progress has delivered every chunk of the bitstream
AllChunksSent == gpc \in {"finish", "deassert_reset", "steady"}

\* C11: the chunks an attempt delivers are consecutive slices of the bitstream
\* starting at offset 0, each of 1..512 bytes and every one but the last of
\* exactly 512; once every chunk is delivered the slices cover the bitstream
\* exactly and there are ceil(length / 512) of them
C11_Chunking ==
  /\ \A k \in 1..Len(sent) :
       /\ sent[k][1] = SentBytes(sent, k - 1)
       /\ sent[k][2] >= 1
       /\ sent[k][2] <= 512
       /\ sent[k][1] + sent[k][2] <= bsLen
       /\ k < Len(sent) => sent[k][2] = 512
  /\ AllChunksSent =>
       /\ SentBytes(sent, Len(sent)) = bsLen
       /\ Len(sent) = Ceil(bsLen, 512)

\* a bitstream of two full chunks and one byte has been loaded in three chunks
C11_Witness ==
  /\ gpc = "steady"
  /\ bsLen = 1025
  /\ sent = <<(<<0, 512>>), (<<512, 512>>), (<<1024, 1>>)>>

\* the last loader call of the attempt failed
LastCallFailed == loadLog # <<>> /\ ~loadLog[Len(loadLog)][4]

\* every loader call of the attempt succeeded: begin, each chunk, finish
AttemptSucceeded ==
  /\ Len(loadLog) = Ceil(bsLen, 512) + 2
  /\ \A k \in 1..Len(loadLog) : loadLog[k][4]
  /\ loadLog[1][1] = "begin"
  /\ \A k \in 2..(Len(loadLog) - 1) : loadLog[k][1] = "continue"
  /\ loadLog[Len(loadLog)][1] = "finish"

C12_State ==
  /\ LastCallFailed => gpc \in {"release", "spi_device"}
  /\ gpc = "release" => LastCallFailed
  /\ gpc = "begin" => loadLog = <<>> /\ sent = <<>>
  /\ gpc = "continue" /\ Len(loadLog) = 1 => loadLog[1][4] /\ sent = <<>>
  /\ gpc \in {"deassert_reset", "steady"} => AttemptSucceeded

C12_Step ==
  /\ gpc = "release" /\ gpc' \notin {"release", "start"} =>
       gpc' = "spi_device" /\ ~spiHeld'
  /\ gpc = "spi_device" /\ gpc' \notin {"spi_device", "start"} => gpc' = "begin"
  /\ gpc' = "deassert_reset" /\ gpc # "deassert_reset" =>
       gpc = "finish" /\ AttemptSucceeded'

\* C12: a failing begin, continue or finish leads to the release of the device
\* and, whatever release answers and however many attempts have failed, to a
\* new attempt that starts at begin with nothing sent; the retry loop is left
\* only after an attempt whose begin, every continue and finish succeeded
C12_RetryUntilLoaded == [](C12_State) /\ [][C12_Step]_vars

\* the load succeeded in the attempt that followed MaxFailed failed ones
C12_Witness ==
  /\ gpc = "steady"
  /\ failed = MaxFailed
  /\ AttemptSucceeded

\* C13: the loader calls of one attempt are begin, then continue for the chunks
\* at offsets 0, 512, 1024, ... with none skipped, repeated or reordered, then
\* finish after the last chunk; a call is made only if every call before it in
\* the attempt succeeded
C13_CallOrder ==
  \A k \in 1..Len(loadLog) :
    /\ (k = 1) <=> (loadLog[k][1] = "begin")
    /\ k < Len(loadLog) => loadLog[k][4]
    /\ loadLog[k][1] = "continue" =>
         /\ k - 1 <= Ceil(bsLen, 512)
         /\ loadLog[k][2] = (k - 2) * 512
         /\ loadLog[k][2] < bsLen
    /\ loadLog[k][1] = "finish" => k = Ceil(bsLen, 512) + 2
    /\ loadLog[k][1] \in {"begin", "continue", "finish"}

\* an attempt on a three-chunk bitstream has made all five calls in order
C13_Witness ==
  /\ gpc = "deassert_reset"
  /\ loadLog = <<(<<"begin", 0, 0, TRUE>>), (<<"continue", 0, 512, TRUE>>),
                 (<<"continue", 512, 512, TRUE>>), (<<"continue", 1024, 1, TRUE>>),
                 (<<"finish", 0, 0, TRUE>>)>>

(***************************************************************************)
(* Clock generator configuration.                                          *)
(***************************************************************************)
LCC == call.op = "load_clock_config"

LccStep == call'.op = "load_clock_config" /\ <<call, ops>>' # <<call, ops>>

C15_State ==
  /\ pc = "idle" => ENABLED LoadClockConfig
  /\ LCC =>
       /\ \A j, k \in 1..Len(ops) : ops[j][2] = ops[k][2] => j = k
       /\ \A k \in 1..Len(ops) : ops[k][1] = "clk"
       /\ Returned => call.ret \in {"Ok", "ClockConfigFailed"}

C15_Step ==
  LccStep => UNCHANGED <<state, vid, deadline, timer, tofinoEn, vout, committed>>

\* C15: load_clock_config is taken whenever the server is idle, in Standby and
\* in Active alike, and is never refused; it writes no packet twice; no step of
\* it changes the PowerState, the stored VID, the timer deadline or the enable
\* register
C15_ClockConfigFrame == [](C15_State) /\ [][C15_Step]_vars

\* a load in Active failed and left the device enabled and the state Active
C15_Witness ==
  /\ LCC
  /\ call.pre = "A0"
  /\ call.ret = "ClockConfigFailed"
  /\ state = "A0"
  /\ tofinoEn = 1
  /\ vid # "Invalid"

(***************************************************************************)
(* Error propagation, the timer notification and the dispatch loop.        *)
(***************************************************************************)
C16_State ==
  /\ pc = "idle" => ENABLED SetState /\ ENABLED GetState /\ ENABLED LoadClockConfig
  /\ pc = "idle" /\ state = "A2" => ENABLED (SetState /\ pc' = "a2a0_enable")
  /\ call.ret \in Failures /\ call.op = "set_state" /\ call.pre = "A2" =>
       state = "A2"

C16_Step ==
  <<call, prev>>' # <<call, prev>> /\ call'.ret \in Failures => pc' = "idle"

\* C16: a call that ends in SequencerTimeout, InvalidVid, IllegalTransition or
\* ClockConfigFailed hands that result to the caller and leaves the server in
\* its dispatch loop, where every request is taken again; in Standby a further
\* set_state(Active) starts a new attempt
C16_FailuresAreResults == [](C16_State) /\ [][C16_Step]_vars

\* a set_state(Active) that timed out was followed by one that succeeded
C16_Witness ==
  /\ prev.op = "set_state"
  /\ prev.req = "A0"
  /\ prev.ret = "SequencerTimeout"
  /\ A2A0
  /\ call.ret = "Ok"
  /\ state = "A0"

C17_State ==
  /\ deadline = deadline0 + 1000 * ticks
  /\ timer = deadline

C17_Step ==
  ticks' = ticks + 1 =>
    /\ deadline' = deadline + 1000
    /\ timer' = deadline'
    /\ led' = 1 - led
    /\ UNCHANGED <<state, vid, tofinoEn, vout, committed>>

\* C17: each timer notification moves the deadline on by exactly 1000 from the
\* previous deadline, arms the timer at the new deadline and inverts the status
\* indicator, and changes neither the PowerState nor the stored VID nor the
\* enable register; after n notifications the deadline is the initial one
\* plus 1000 * n
C17_TimerCadence == [](C17_State) /\ [][C17_Step]_vars

\* two notifications were handled in Active after a start at time 3
C17_Witness ==
  /\ ticks = 2
  /\ deadline0 = 3
  /\ deadline = 2003
  /\ timer = 2003
  /\ state = "A0"
  /\ tofinoEn = 1

\* a set_state or load_clock_config is in progress
InProgress == call.ret = "pending"

C18_State ==
  /\ pc \notin {"idle", "halted"} => InProgress
  /\ InProgress =>
       /\ pc # "idle"
       /\ ~ENABLED HandleNotification
       /\ ~ENABLED GetState
       /\ ~ENABLED SetState
       /\ ~ENABLED LoadClockConfig

C18_Step ==
  InProgress /\ call' # NoCall =>
    /\ call'.op = call.op /\ call'.req = call.req /\ call'.pre = call.pre
    /\ UNCHANGED <<prev, ticks, deadline, timer, led>>

\* C18: from the receipt of a set_state or load_clock_config to its return,
\* its sleeps included, the server takes no other request and handles no
\* timer notification: every step is a step of that call
C18_OneAtATime == [](C18_State) /\ [][C18_Step]_vars

\* a set_state(Active) is between two polls, after a notification was handled
\* before it began
C18_Witness ==
  /\ pc = "a2a0_reread"
  /\ InProgress
  /\ i = 2
  /\ ticks = 1

(***************************************************************************)
(* Voltage-ID decoding and regulator programming.                          *)
(***************************************************************************)
\* the set-points of the codes 0b1000 .. 0b1111, in millivolts
VidTable == <<759, 790, 815, 831, 847, 867, 893, 922>>

ValidVidBytes == 8..15

\* C19: exactly the bytes 0b1000 .. 0b1111 decode to a set-point, in the order
\* 0.759, 0.790, 0.815, 0.831, 0.847, 0.867, 0.893, 0.922 V, and every other
\* byte decodes to Invalid; in a transition the regulator is programmed with
\* the set-point of the byte read and with nothing else, and a byte outside
\* the range is answered with InvalidVid and no regulator write
C19_VidDecode ==
  /\ \A b \in AllBytes :
       IF b \in ValidVidBytes
         THEN /\ VidDecode(b) # "Invalid"
              /\ VidMillivolts(VidDecode(b)) = VidTable[b - 7]
         ELSE VidDecode(b) = "Invalid"
  /\ \A a, b \in ValidVidBytes :
       a < b => VidMillivolts(VidDecode(a)) < VidMillivolts(VidDecode(b))
  /\ A2A0 =>
       /\ \A k \in Idx(ops, "vid") :
            /\ (ops[k][2] \in ValidVidBytes) <=> (vid # "Invalid")
            /\ Returned /\ ops[k][2] \in ValidVidBytes =>
                 call.ret = "Ok" /\ vout = VidTable[ops[k][2] - 7]
            /\ Returned /\ ops[k][2] \notin ValidVidBytes =>
                 call.ret = "InvalidVid" /\ Idx(ops, "vout") = {}
       /\ \A k \in Idx(ops, "vout") :
            \E j \in Idx(ops, "vid") :
              /\ j < k
              /\ ops[j][2] \in ValidVidBytes
              /\ ops[k][2] = VidTable[ops[j][2] - 7]
              /\ vout = ops[k][2]
       /\ Len(ops) >= 1 => Cardinality(Idx(ops, "vout")) <= 1

\* the byte 0b1011 was read and the regulator programmed to 0.831 V
C19_Witness ==
  /\ A2A0
  /\ call.ret = "Ok"
  /\ \E k \in Idx(ops, "vid") : ops[k][2] = 11
  /\ vout = 831
  /\ state = "A0"

\* the attempt has got past the VID read
PastVidRead ==
  pc \in {"a2a0_check", "a2a0_eject", "a2a0_invalid", "a2a0_apply", "a2a0_commit"}

\* C20: a Standby-to-Active attempt reads the VID register once, after the
\* read of the sequencer status that found phase 9 or more, whatever code an
\* earlier attempt stored; the stored code and the regulator set-point come
\* from the byte read in this attempt; an attempt that times out reads no VID
\* and programs nothing
C20_VidReadEachAttempt ==
  A2A0 =>
    /\ Cardinality(Idx(ops, "vid")) <= 1
    /\ PastVidRead => Cardinality(Idx(ops, "vid")) = 1
    /\ Returned /\ (\E k \in Idx(ops, "seq") : ops[k][2] >= 9) =>
         Cardinality(Idx(ops, "vid")) = 1
    /\ \A k \in Idx(ops, "vid") :
         /\ Idx(ops, "seq") # {}
         /\ MaxOf(Idx(ops, "seq")) < k
         /\ ops[MaxOf(Idx(ops, "seq"))][2] >= 9
         /\ vid = VidDecode(ops[k][2])
    /\ \A k \in Idx(ops, "vout") :
         \E j \in Idx(ops, "vid") :
           j < k /\ ops[k][2] = VidMillivolts(VidDecode(ops[j][2]))
    /\ call.ret = "SequencerTimeout" =>
         Idx(ops, "vid") = {} /\ Idx(ops, "vout") = {}

\* after a power-up and a power-down, a second power-up read the VID register
\* again and programmed the set-point of that read
C20_Witness ==
  /\ A2A0
  /\ call.ret = "Ok"
  /\ prev.op = "set_state" /\ prev.req = "A2" /\ prev.ret = "Ok"
  /\ \E k \in Idx(ops, "vid") : ops[k][2] = 8
  /\ vout = 759

(***************************************************************************)
(* Restarts, bus faults and the state the server holds.                    *)
(***************************************************************************)
\* the first call since main started is a get_state that has returned
FirstCallIsGetState == call.op = "get_state" /\ prev = NoPrev

\* C21: the PowerState reported after a start of the server agrees with the
\* hardware: the first get_state returns Active exactly when the enable
\* register reads enabled
C21_StateFromHardware ==
  FirstCallIsGetState => ((call.val = "A0") <=> (tofinoEn = 1))

\* the task has halted inside a set_state
HaltedInSetState == pc = "halted" /\ call.op = "set_state" /\ InProgress

C22_State ==
  /\ Returned => call.ret \in {"Ok"} \cup Failures
  /\ HaltedInSetState =>
       /\ state = call.pre
       /\ Idx(ops, "state") = {}
       /\ call.val = "none"

C22_Step ==
  /\ pc = "halted" /\ pc' = "halted" =>
       UNCHANGED <<state, vid, tofinoEn, vout, call, prev, ops, committed>>
  /\ pc = "halted" /\ pc' # "halted" => call' = NoCall /\ state' = "A2"

\* C22: a bus fault in a register access or in the regulator write of a
\* set_state halts the task where it stands: the call never gets a result, no
\* further register or regulator write is made and no PowerState is stored by
\* it; nothing but a restart of the task follows
C22_FaultHalts == [](C22_State) /\ [][C22_Step]_vars

\* the regulator write of a power-up faulted after the device was enabled and
\* a valid VID was read
C22_Witness ==
  /\ HaltedInSetState
  /\ A2A0
  /\ tofinoEn = 1
  /\ Idx(ops, "vid") # {}
  /\ vid # "Invalid"
  /\ Idx(ops, "vout") = {}

(***************************************************************************)
(* Rail polling, resets and the load attempts of the Gimlet bring-up.      *)
(***************************************************************************)
C23_State ==
  /\ gpc \in {"poll_v1p2", "poll_v3p3"} => sinceIo = 2
  /\ gpc \in {"settle_v1p2", "sleep_v1p2", "settle_v3p3", "sleep_v3p3"} => sinceIo = 0
  /\ gpc \in {"settle_v1p2", "poll_v1p2", "sleep_v1p2"} =>
       "V3P3" \notin wrote /\ loadLog = <<>>
  /\ gpc \in {"settle_v3p3", "poll_v3p3", "sleep_v3p3"} => loadLog = <<>>

\* a step that neither restarts nor halts the task
Runs == gpc' \notin {"start", "halted"}

C23_Step ==
  /\ gpc = "poll_v1p2" /\ "V1P2" \notin idr /\ Runs => gpc' \in {"poll_v1p2", "sleep_v1p2"}
  /\ gpc = "sleep_v1p2" /\ Runs => gpc' \in {"sleep_v1p2", "poll_v1p2"}
  /\ gpc = "poll_v3p3" /\ "V3P3" \notin idr /\ Runs => gpc' \in {"poll_v3p3", "sleep_v3p3"}
  /\ gpc = "sleep_v3p3" /\ Runs => gpc' \in {"sleep_v3p3", "poll_v3p3"}

\* from some time on both power-goods stay asserted, no load attempt fails and
\* the task is neither restarted nor halted
C23_Settled ==
  <>[](/\ {"V1P2", "V3P3"} \subseteq idr
       /\ gpc \notin {"start", "halted", "release"})

\* C23: a rail's power-good is read 2 time units after the enable write and
\* then every 2 time units; a read that finds it deasserted is followed by the
\* sleep and another read, however often, and never by the next rail's enable
\* or a bitstream load; and if from some time on the power-goods stay asserted
\* and the load attempts stop failing, main reaches its steady loop and stays
C23_RailPolling ==
  /\ [](C23_State)
  /\ [][C23_Step]_vars
  /\ (C23_Settled => <>[](gpc = "steady"))

\* a read has just found the V1P2 power-good deasserted
C23_Witness ==
  /\ gpc = "sleep_v1p2"
  /\ "V1P2" \notin idr
  /\ wrote = {"V1P2"}
  /\ sinceIo = 0

(***************************************************************************)
(* Termination of set_state.                                               *)
(***************************************************************************)
\* an upper bound of the steps set_state has left at position p with the poll
\* counter at n; 0 when no handler runs
StepsLeft(p, n) ==
  CASE p = "a2a0_enable" -> 20
    [] p = "a2a0_first_read" -> 19
    [] p = "a2a0_loop" -> 18 - 2 * n
    [] p = "a2a0_reread" -> 19 - 2 * n
    [] p = "a2a0_vid" -> 7
    [] p = "a2a0_check" -> 6
    [] p = "a2a0_eject" -> 5
    [] p = "a2a0_invalid" -> 4
    [] p = "a2a0_apply" -> 5
    [] p = "a2a0_commit" -> 4
    [] p = "a0a2_disable" -> 2
    [] p = "a0a2_commit" -> 1
    [] OTHER -> 0

\* a step of the set_state handler
SetStateStep ==
  \/ EnableTofino
  \/ FirstSeqRead
  \/ PollSleep
  \/ PollRead
  \/ PollDone
  \/ GetTofinoVid
  \/ CheckVid
  \/ EjectTofino
  \/ ReturnInvalidVid
  \/ ApplyVid
  \/ CommitA0
  \/ DisableTofino
  \/ CommitA2

SetStateRuns == call.op = "set_state" /\ InProgress /\ pc # "halted"

C24_State ==
  /\ StepsLeft(pc, i) >= 0
  /\ SetStateRuns => ENABLED SetStateStep
  /\ call.op = "set_state" =>
       /\ Cardinality(Idx(ops, "sleep")) <= 5
       /\ \A k \in Idx(ops, "sleep") : ops[k][2] = 10
       /\ ~A2A0 => Idx(ops, "sleep") = {}
       /\ Returned /\ A2A0 => call.ret \in {"Ok", "SequencerTimeout", "InvalidVid"}
       /\ Returned /\ A0A2 => call.ret = "Ok"
       /\ Returned /\ ~A2A0 /\ ~A0A2 => call.ret = "IllegalTransition"

C24_Step ==
  SetStateRuns /\ call' # NoCall => StepsLeft(pc', i') < StepsLeft(pc, i)

\* C24: a set_state that is not stopped by a bus fault always has a next step
\* and every step lowers a bound on the steps left, so it returns; a power-up
\* sleeps at most 5 times, 10 time units each, and returns Ok,
\* SequencerTimeout or InvalidVid; a power-down and a refused request return
\* without a sleep
C24_SetStateTerminates == [](C24_State) /\ [][C24_Step]_vars

\* a power-up slept five times before its last read found the sequencer ready,
\* and then failed on the VID
C24_Witness ==
  /\ A2A0
  /\ call.ret = "InvalidVid"
  /\ Cardinality(Idx(ops, "sleep")) = 5

(***************************************************************************)
(* The trap of apply_vid and the enable register.                          *)
(***************************************************************************)
\* the match of apply_vid takes its Invalid arm: panic!()
ApplyVidTrap == pc = "a2a0_apply" /\ vid = "Invalid" /\ Panic

\* C25: apply_vid runs only in a set_state whose last hardware step before it
\* was the VID sample, with a byte of 0b1000 .. 0b1111, and the stored VID is
\* the code of that byte: its Invalid arm is never taken
C25_TrapUnreachable ==
  /\ pc \in {"a2a0_apply", "a2a0_commit"} => vid # "Invalid"
  /\ pc = "a2a0_apply" =>
       /\ A2A0
       /\ ops # <<>>
       /\ ops[Len(ops)][1] = "vid"
       /\ ops[Len(ops)][2] \in 8..15
       /\ vid = VidDecode(ops[Len(ops)][2])
  /\ ~ENABLED ApplyVidTrap

\* apply_vid is about to run on a code sampled after an earlier power-up had
\* stored another
C25_Witness ==
  /\ pc = "a2a0_apply"
  /\ ops[Len(ops)] = <<"vid", 15>>
  /\ vid = "V0P922"
  /\ vout = 759

\* C26: whenever the server is idle in Standby, the last value written to the
\* enable register since it started is "disabled". The writes of the call
\* last made, when it made any, are the last ones since the start.
C26_StandbyMeansDisabled ==
  pc = "idle" /\ state = "A2" /\ Idx(ops, "en") # {} => LastEn(ops) = 0

\* the device is enabled, a valid VID is stored and the regulator holds its
\* set-point
PoweredUp ==
  /\ tofinoEn = 1
  /\ vid # "Invalid"
  /\ vout = VidMillivolts(vid)

\* a power-down is in progress, or was cut short by a bus fault
PowerDownRuns == A0A2 /\ InProgress

\* C27 as stated: whenever the PowerState is Active the last value written to
\* the enable register is "enabled", the stored VID is valid and the regulator
\* holds its set-point
C27_ActiveAlways == state = "A0" => PoweredUp

C27_State ==
  /\ state = "A0" /\ ~PowerDownRuns => PoweredUp
  /\ A2A0 /\ Idx(ops, "state") # {} =>
       /\ Idx(ops, "en") # {} /\ Idx(ops, "vout") # {}
       /\ MaxOf(Idx(ops, "en")) < MaxOf(Idx(ops, "vout"))
       /\ MaxOf(Idx(ops, "vout")) < MaxOf(Idx(ops, "state"))

C27_Step ==
  state = "A0" /\ state' = "A0" /\ ~PowerDownRuns' =>
    UNCHANGED <<tofinoEn, vid, vout>>

\* C27 (amended): whenever the PowerState is Active and no power-down is in
\* progress, the last value written to the enable register is "enabled", the
\* stored VID is valid and the regulator holds that VID's set-point, written
\* after the enable write of the power-up that stored Active and not touched
\* since
C27_ActiveWhenSettled == [](C27_State) /\ [][C27_Step]_vars

\* the server is idle in Active after a clock configuration load that
\* followed the power-up
C27_Witness ==
  /\ pc = "idle"
  /\ state = "A0"
  /\ LCC
  /\ Returned
  /\ prev.op = "set_state" /\ prev.req = "A0" /\ prev.ret = "Ok"
  /\ PoweredUp

\* the pin of CRESETB, and the pins of the design reset net (none on a board
\* without one)
CresetPins == Pins(CresetPort, CresetMask)
ResetPins == IF GLOBAL_RESET = <<>> THEN {} ELSE Pins(GLOBAL_RESET[1], GLOBAL_RESET[2])

\* pins that are outputs driving low
DrivenLow(pins) == pins \subseteq outPins /\ pins \cap odr = {}

\* main is in the retry loop of the bitstream load
InLoadLoop == gpc \in {"spi_device", "begin", "continue", "finish", "release"}

C28_State ==
  /\ RankOf(gpc) >= Rank("en_v1p2") /\ RankOf(gpc) <= Rank("begin") /\ failed = 0 =>
       CresetPins \cap odr = {}
  /\ InLoadLoop => DrivenLow(ResetPins)

C28_Step ==
  /\ wrote' # wrote /\ wrote' # {} => CresetPins \cap odr = {}
  /\ (InLoadLoop \/ gpc = "deassert_reset") /\ ResetPins \cap odr' # {} =>
       /\ gpc = "deassert_reset"
       /\ AttemptSucceeded

\* C28: in a run of main the CRESETB bit has been written low when the first
\* rail enable is written and stays low up to the first begin; where there is a
\* design reset net it is an output driving low (asserted) from before the
\* first load attempt through every attempt, release and retry, and goes high
\* only in the step after an attempt in which every loader call succeeded
C28_Resets == [](C28_State) /\ [][C28_Step]_vars

\* on a board with a design reset net a new attempt begins after MaxFailed
\* failed ones, the net still asserted
C28_Witness ==
  /\ ResetPins # {}
  /\ gpc = "begin"
  /\ failed = MaxFailed
  /\ DrivenLow(ResetPins)

\* main is past the retry loop of the bitstream load
PastLoad == gpc \in {"deassert_reset", "steady"}

C29_State ==
  /\ PastLoad => AttemptSucceeded /\ SentBytes(sent, Len(sent)) = bsLen
  /\ loadLog # <<>> => {"V1P2", "V3P3"} \subseteq sawPg

C29_Step ==
  /\ gpc' = "steady" /\ gpc # "steady" => gpc = "deassert_reset"
  /\ gpc = "assert_reset" /\ gpc' \notin {"assert_reset", "start", "halted"} =>
       gpc' = "spi_device"

\* C29: every run of main that gets past the rails goes into the load loop,
\* on a first start and after a restart that found the rails up alike, and is
\* past the loop only with an attempt of this run in which begin, every chunk
\* and finish succeeded, made after both power-goods were seen
C29_AlwaysReprogram == [](C29_State) /\ [][C29_Step]_vars

\* a run of main that began with the rails already up has loaded the bitstream
\* again
C29_Witness ==
  /\ warm
  /\ gpc = "steady"
  /\ AttemptSucceeded
  /\ failed = 0

(***************************************************************************)
(* The stage0 bootloader.                                                  *)
(***************************************************************************)

\* the pages of 0x200 bytes a u32 can count: 2^32 / 0x200
Pages == 8388608

\* ImageHeader.image_length as found in flash, the last one within 0x1ff of
\* the top of u32
ImageLengths ==
  {Bytes(0, 0), Bytes(0, 1), Bytes(1, 0), Bytes(1, 1), Bytes(2, 0),
   Bytes(Pages - 1, 511)}

\* the programmed pages from the start of image A on
ProgrammedExtents == 0..3

\* entry points an image header can name, with and without the Thumb bit
EntryPoints == {256, 257, 513}

\* image_length + 0x1ff leaves u32
RoundOverflows(len) == len.pages = Pages - 1 /\ len.rest > 0

\* (image_length + 0x1ff) & !(0x1ff) in u32, in pages
RoundUpPages(len) == (len.pages + (IF len.rest > 0 THEN 1 ELSE 0)) % Pages

\* lpc55_romapi::validate_programmed(img_start, n pages); what the ROM answers
\* for an empty range is empty
ValidateProgrammed(n, empty) == IF n = 0 THEN empty ELSE n <= programmed

\* entry_pt & !1u32
Vector(e) == e - (e % 2)

\* panic!: panic_halt spins for good
Stage0Halt ==
  /\ bpc' = "halted"
  /\ UNCHANGED <<entry_pt, sau_ctrl, vtor_ns, ns_pc, trail>>

\* ImageHeader::validate, the first 0x200 bytes
ValidateHeader ==
  /\ bpc = "validate"
  /\ IF ValidateProgrammed(1, TRUE)
       THEN /\ bpc' = "validate_len"
            /\ UNCHANGED <<entry_pt, sau_ctrl, vtor_ns, ns_pc, trail>>
       ELSE Stage0Halt
  /\ UNCHANGED <<nvars, svars, gvars, image_length, programmed, sig_ok, attest_ok>>

\* ImageHeader::validate, the marked image length; the addition that leaves u32
\* panics in a build with overflow checks and wraps in one without
ValidateLength ==
  /\ bpc = "validate_len"
  /\ \E checked, empty \in BOOLEAN :
       IF RoundOverflows(image_length) /\ checked
         THEN Stage0Halt
         ELSE IF ValidateProgrammed(RoundUpPages(image_length), empty)
                THEN /\ bpc' = "validate_image"
                     /\ trail' = Append(trail, "programmed")
                     /\ UNCHANGED <<entry_pt, sau_ctrl, vtor_ns, ns_pc>>
                ELSE Stage0Halt
  /\ UNCHANGED <<nvars, svars, gvars, image_length, programmed, sig_ok, attest_ok>>

\* main: validate_image and the panic on its Err
ValidateImage ==
  /\ bpc = "validate_image"
  /\ IF sig_ok
       THEN /\ bpc' = "attest"
            /\ entry_pt' \in EntryPoints
            /\ trail' = Append(trail, "signature")
            /\ UNCHANGED <<sau_ctrl, vtor_ns, ns_pc>>
       ELSE Stage0Halt
  /\ UNCHANGED <<nvars, svars, gvars, image_length, programmed, sig_ok, attest_ok>>

\* attest whose Err is dropped
AttestBug ==
  /\ bpc = "attest"
  /\ bpc' = "write_sau"
  /\ trail' = IF attest_ok THEN Append(trail, "attestation") ELSE trail
  /\ UNCHANGED <<entry_pt, sau_ctrl, vtor_ns, ns_pc>>
  /\ UNCHANGED <<nvars, svars, gvars, image_length, programmed, sig_ok, attest_ok>>

\* main: attest and the panic on its Err
Attest ==
  /\ bpc = "attest"
  /\ IF attest_ok
       THEN /\ bpc' = "write_sau"
            /\ trail' = Append(trail, "attestation")
            /\ UNCHANGED <<entry_pt, sau_ctrl, vtor_ns, ns_pc>>
       ELSE Stage0Halt
  /\ UNCHANGED <<nvars, svars, gvars, image_length, programmed, sig_ok, attest_ok>>

\* write_sau: the regions, then the enable bit
WriteSau ==
  /\ bpc = "write_sau"
  /\ bpc' = "enable_faults"
  /\ sau_ctrl' = 1
  /\ UNCHANGED <<entry_pt, vtor_ns, ns_pc, trail>>
  /\ UNCHANGED <<nvars, svars, gvars, image_length, programmed, sig_ok, attest_ok>>

\* main: coprocessor access, the three fault exceptions and BFHFNMINS
EnableFaults ==
  /\ bpc = "enable_faults"
  /\ bpc' = "write_vtor"
  /\ UNCHANGED <<entry_pt, sau_ctrl, vtor_ns, ns_pc, trail>>
  /\ UNCHANGED <<nvars, svars, gvars, image_length, programmed, sig_ok, attest_ok>>

\* main: MSP_NS and the non-secure VTOR
WriteVtor ==
  /\ bpc = "write_vtor"
  /\ bpc' = "branch"
  /\ vtor_ns' = "imagea"
  /\ UNCHANGED <<entry_pt, sau_ctrl, ns_pc, trail>>
  /\ UNCHANGED <<nvars, svars, gvars, image_length, programmed, sig_ok, attest_ok>>

\* main: bxns vector
Branch ==
  /\ bpc = "branch"
  /\ bpc' = "nonsecure"
  /\ ns_pc' = Vector(entry_pt)
  /\ UNCHANGED <<entry_pt, sau_ctrl, vtor_ns, trail>>
  /\ UNCHANGED <<nvars, svars, gvars, image_length, programmed, sig_ok, attest_ok>>

\* the bootloader starts; the other programs are not run
InitStage0 ==
  /\ ServerInit({0})
  /\ GimletInit({"gimlet-1"}, {{}}, {CHUNK_SIZE})
  /\ Stage0Init(ImageLengths, ProgrammedExtents, BOOLEAN)
  /\ VscInit

NextStage0 ==
  \/ ValidateHeader
  \/ ValidateLength
  \/ ValidateImage
  \/ Attest
  \/ WriteSau
  \/ EnableFaults
  \/ WriteVtor
  \/ Branch

SpecStage0 == InitStage0 /\ [][NextStage0]_vars

(***************************************************************************)
(* C30: the bootloader enters the non-secure image only after image A was  *)
(* found programmed, then its signature check succeeded, then attestation  *)
(* succeeded, in this order; when one of the three fails it halts, having  *)
(* neither enabled the security attribution unit nor branched.             *)
(***************************************************************************)
CheckOrder == <<"programmed", "signature", "attestation">>

Passed(check) == \E n \in 1..Len(trail) : trail[n] = check

\* main is past the panic of attest
PastChecks == bpc \in {"write_sau", "enable_faults", "write_vtor", "branch", "nonsecure"}

\* the state of the part is as the reset left it
Untouched == sau_ctrl = 0 /\ vtor_ns = "reset" /\ ns_pc = NotRunning

\* one of the three checks fails on this image
SomeCheckFails ==
  \/ programmed < 1
  \/ RoundUpPages(image_length) > programmed
  \/ ~sig_ok
  \/ ~attest_ok

C30_State ==
  /\ trail = SubSeq(CheckOrder, 1, Len(trail))
  /\ Passed("programmed") =>
       programmed >= 1 /\ RoundUpPages(image_length) <= programmed
  /\ Passed("signature") => sig_ok
  /\ Passed("attestation") => attest_ok
  /\ bpc \notin {"validate", "validate_len", "halted"} => Passed("programmed")
  /\ bpc \notin {"validate", "validate_len", "validate_image", "halted"} =>
       Passed("signature")
  /\ PastChecks \/ ~Untouched => trail = CheckOrder
  /\ SomeCheckFails => ~PastChecks /\ Untouched
  /\ bpc = "halted" => Untouched /\ trail # CheckOrder /\ ~ENABLED NextStage0

C30_Step ==
  /\ ns_pc' # ns_pc =>
       /\ trail = CheckOrder
       /\ sau_ctrl = 1
       /\ ns_pc' = Vector(entry_pt)
  /\ bpc = "validate_image" /\ ~sig_ok => bpc' = "halted"
  /\ bpc = "attest" /\ ~attest_ok => bpc' = "halted"
  /\ bpc = "validate_len" /\ RoundUpPages(image_length) > programmed =>
       bpc' = "halted"
  /\ bpc = "validate" /\ programmed < 1 => bpc' = "halted"

C30_ChecksBeforeBranch == [](C30_State) /\ [][C30_Step]_vars

\* the image was entered at an entry point that carried the Thumb bit
C30_Witness ==
  /\ bpc = "nonsecure"
  /\ ns_pc = 256
  /\ entry_pt = 257
  /\ sau_ctrl = 1
  /\ trail = CheckOrder

(***************************************************************************)
(* The net task: configure_phy.                                            *)
(***************************************************************************)

\* the pin, one of nrst (PI14), coma_mode (PI15), phy2_pwr_en (PI11) and
\* rst (PA0), is an output that drives this level
PinDriven(pin, level) ==
  pin \in phyOut /\ (pin \in phyOdr <=> level = 1)

\* .unwrap() of an Err: the task panics where it is
PhyPanic ==
  /\ npc' = "dead"
  /\ UNCHANGED <<phyOdr, phyOut, lastPin, slept, phyReady>>

\* gpio_driver.set(pin) for level 1, gpio_driver.reset(pin) for level 0
PinWrite(at, pin, level, to) ==
  /\ npc = at
  /\ \/ /\ npc' = to
        /\ phyOdr' = (IF level = 1 THEN phyOdr \cup {pin} ELSE phyOdr \ {pin})
        /\ lastPin' = <<pin, level>>
        /\ slept' = 0
        /\ UNCHANGED <<phyOut, phyReady>>
     \/ PhyPanic
  /\ UNCHANGED <<svars, gvars, bvars>>

\* gpio_driver.configure_output(pin, PushPull, Low, None)
PinOutput(at, pin, to) ==
  /\ npc = at
  /\ \/ /\ npc' = to
        /\ phyOut' = phyOut \cup {pin}
        /\ UNCHANGED <<phyOdr, lastPin, slept, phyReady>>
     \/ PhyPanic
  /\ UNCHANGED <<svars, gvars, bvars>>

\* sleep_for(t): the task runs again t ticks later, or later than that
PhySleep(at, t, to) ==
  /\ npc = at
  /\ npc' = to
  /\ \E late \in 0..MaxLate : slept' = slept + t + late
  /\ UNCHANGED <<phyOdr, phyOut, lastPin, phyReady>>
  /\ UNCHANGED <<svars, gvars, bvars>>

NrstLow == PinWrite("nrst_low", "nrst", 0, "nrst_out")

NrstOutput == PinOutput("nrst_out", "nrst", "coma_high")

ComaHigh == PinWrite("coma_high", "coma_mode", 1, "coma_out")

ComaOutput == PinOutput("coma_out", "coma_mode", "pwr_low")

PwrLow == PinWrite("pwr_low", "phy2_pwr_en", 0, "pwr_out")

PwrOutput == PinOutput("pwr_out", "phy2_pwr_en", "pwr_low_again")

PwrLowAgain == PinWrite("pwr_low_again", "phy2_pwr_en", 0, "sleep_off")

\* sleep_for(10) with the power off
SleepOff == PhySleep("sleep_off", 10, "pwr_on")

\* Power on!
PwrOn == PinWrite("pwr_on", "phy2_pwr_en", 1, "sleep_on")

\* a wait of 1 after the power was switched on
SleepOnBug == PhySleep("sleep_on", 1, "nrst_high")

\* sleep_for(4) after the power was switched on
SleepOn == PhySleep("sleep_on", 4, "nrst_high")

NrstHigh == PinWrite("nrst_high", "nrst", 1, "sleep_reset")

\* sleep_for(120): wait for the chip to come out of reset
SleepReset == PhySleep("sleep_reset", 120, "init")

\* vsc85xx::init_vsc8552_phy(&mut phy).unwrap()
InitPhy ==
  /\ npc = "init"
  /\ \/ /\ npc' = "coma_low"
        /\ phyReady' = TRUE
        /\ UNCHANGED <<phyOdr, phyOut, lastPin, slept>>
     \/ PhyPanic
  /\ UNCHANGED <<svars, gvars, bvars>>

\* Disable COMA_MODE
ComaLow == PinWrite("coma_low", "coma_mode", 0, "ksz_rst_low")

\* a step of configure_ksz8463 that leaves the pins alone; err tells whether
\* the SPI exchange or the assertion of the step fails
KszStep(at, err, to) ==
  /\ npc = at
  /\ \/ /\ ~err
        /\ npc' = to
        /\ UNCHANGED <<phyOdr, phyOut, lastPin, slept, phyReady>>
     \/ /\ err
        /\ PhyPanic
  /\ UNCHANGED <<svars, gvars, bvars>>

\* values the KSZ8463 may answer for CIDER
KszIds == {0, 33874, 33875}

\* id & !1
ChipId(id) == id - (id % 2)

KszRstLow == PinWrite("ksz_rst_low", "rst", 0, "ksz_rst_out")

KszRstOutput == PinOutput("ksz_rst_out", "rst", "ksz_sleep_reset")

\* sleep_for(10): reset must be held low for 10 ms after power up
KszSleepReset == PhySleep("ksz_sleep_reset", 10, "ksz_rst_high")

KszRstHigh == PinWrite("ksz_rst_high", "rst", 1, "ksz_sleep_run")

KszSleepRun == PhySleep("ksz_sleep_run", 1, "ksz_id")

\* ksz.read(CIDER).unwrap() and assert_eq!(id & !1, 0x8452)
KszReadId ==
  \E failed_io \in BOOLEAN, id \in KszIds :
    KszStep("ksz_id", failed_io \/ ChipId(id) # 33874, "ksz_enable")

\* ksz.enable().unwrap()
KszEnable == \E failed_io \in BOOLEAN : KszStep("ksz_enable", failed_io, "ksz_cfgr")

\* ksz.write_masked(CFGR, 0x0, 0xc0).unwrap()
KszCfgr == \E failed_io \in BOOLEAN : KszStep("ksz_cfgr", failed_io, "ksz_dsp")

\* ksz.write_masked(DSP_CNTRL_6, 0, 0x2000).unwrap()
KszDsp == \E failed_io \in BOOLEAN : KszStep("ksz_dsp", failed_io, "ksz_p1mbcr")

\* ksz.read(P1MBCR).unwrap(), the end of configure_phy
KszP1mbcr == \E failed_io \in BOOLEAN : KszStep("ksz_p1mbcr", failed_io, "configured")

\* the task is restarted: configure_phy runs again from the top, the pins
\* are as they were
NetRestart ==
  /\ npc' = "nrst_low"
  /\ lastPin' = NoPin
  /\ slept' = 0
  /\ phyReady' = FALSE
  /\ UNCHANGED <<phyOdr, phyOut>>
  /\ UNCHANGED <<svars, gvars, bvars>>

\* the net task starts; the other programs are not run
InitNet ==
  /\ ServerInit({0})
  /\ GimletInit({"gimlet-1"}, {{}}, {CHUNK_SIZE})
  /\ Stage0Init({NoImage}, {0}, {FALSE})
  /\ VscInit

NextNet ==
  \/ NrstLow
  \/ NrstOutput
  \/ ComaHigh
  \/ ComaOutput
  \/ PwrLow
  \/ PwrOutput
  \/ PwrLowAgain
  \/ SleepOff
  \/ PwrOn
  \/ SleepOn
  \/ NrstHigh
  \/ SleepReset
  \/ InitPhy
  \/ ComaLow
  \/ KszRstLow
  \/ KszRstOutput
  \/ KszSleepReset
  \/ KszRstHigh
  \/ KszSleepRun
  \/ KszReadId
  \/ KszEnable
  \/ KszCfgr
  \/ KszDsp
  \/ KszP1mbcr
  \/ NetRestart

SpecNet == InitNet /\ [][NextNet]_vars

(***************************************************************************)
(* C31: in the VSC8552 bring-up the power enable and the reset line are    *)
(* driven low before the power is switched on; the reset is released only  *)
(* with the power enabled and 4 time units slept since; the PHY is         *)
(* initialized only with the reset released and 120 time units slept       *)
(* since; COMA_MODE is high from its configuration until the PHY           *)
(* initialization has succeeded and is driven low only after that.         *)
(***************************************************************************)
\* configure_vsc8552 is past the configuration of COMA_MODE and has not yet
\* disabled it
ComaHeld ==
  npc \in {"pwr_low", "pwr_out", "pwr_low_again", "sleep_off", "pwr_on",
           "sleep_on", "nrst_high", "sleep_reset", "init", "coma_low"}

\* configure_vsc8552 is past Power on! in this run
PastPowerOn ==
  npc \in {"sleep_on", "nrst_high", "sleep_reset", "init", "coma_low"}

C31_State ==
  /\ ComaHeld => PinDriven("coma_mode", 1)
  /\ npc = "pwr_on" =>
       PinDriven("phy2_pwr_en", 0) /\ PinDriven("nrst", 0)
  /\ PastPowerOn => PinDriven("phy2_pwr_en", 1)
  /\ npc = "nrst_high" =>
       PinDriven("nrst", 0) /\ lastPin = <<"phy2_pwr_en", 1>> /\ slept >= 4
  /\ npc = "init" =>
       PinDriven("nrst", 1) /\ lastPin = <<"nrst", 1>> /\ slept >= 120
  /\ phyReady /\ npc \notin {"coma_low", "dead"} => PinDriven("coma_mode", 0)

C31_Step ==
  /\ ~PinDriven("phy2_pwr_en", 1) /\ PinDriven("phy2_pwr_en", 1)' =>
       /\ npc = "pwr_on"
       /\ PinDriven("phy2_pwr_en", 0)
       /\ PinDriven("nrst", 0)
  /\ ~PinDriven("nrst", 1) /\ PinDriven("nrst", 1)' =>
       /\ npc = "nrst_high"
       /\ PinDriven("phy2_pwr_en", 1)
       /\ slept >= 4
  /\ ~phyReady /\ phyReady' =>
       /\ npc = "init"
       /\ PinDriven("nrst", 1)
       /\ slept >= 120
  /\ PinDriven("coma_mode", 1) /\ ~PinDriven("coma_mode", 1)' =>
       npc = "coma_low" /\ phyReady

C31_PhyBringUp == [](C31_State) /\ [][C31_Step]_vars

\* a run that began with the PHY powered and out of reset from an earlier run
\* has brought it up again and disabled COMA_MODE
C31_Witness ==
  /\ npc = "ksz_rst_low"
  /\ phyReady
  /\ PinDriven("coma_mode", 0)
  /\ PinDriven("nrst", 1)
  /\ PinDriven("phy2_pwr_en", 1)
  /\ PinDriven("rst", 1)

====
